---- MODULE Spec2Model ----
(***************************************************************************)
(* A model of the KV skip-list repository.  This part models SkipListMVCC  *)
(* (skiplist_mvcc.h): the transaction manager, the version chains of the   *)
(* nodes, the structural insert, the lock-free reads and the garbage       *)
(* collector.  Every thread drives one transaction; the steps of           *)
(* begin_transaction, commit_transaction, abort_transaction and gc that    *)
(* the code does not cover by one lock are separate actions.  A call that  *)
(* only reads (search_element) changes no variable: what it returns is an  *)
(* operator of the state in which it runs.                                 *)
(*                                                                         *)
(* The second part models SkipListOptimized (skiplist_optimized.h) with    *)
(* its SegmentLockManager (segment_lock.h) and NodeMemoryPool              *)
(* (memory_pool.h): threads call insert_element, delete_element,           *)
(* search_element, dump_file, display_list and size; a step is what a      *)
(* thread does between two lock acquisitions, and the walks that run       *)
(* without the writers' lock go pointer by pointer.                        *)
(***************************************************************************)
EXTENDS Integers, Sequences, FiniteSets, TLC

\* ------------------------------------------------------------------ bounds
\* transactions that may begin
MaxTxn == 3
\* keys are 1..MaxKey
MaxKey == 2
\* values are 1..MaxVal
MaxVal == 2
\* versions that may be written in all (the cap of _total_versions)
MaxVersions == 2
\* threads, each driving one unfinished transaction at a time
MaxThreads == 2
\* the max_level argument of the constructor
_max_level == 1
\* threads that call the operations of SkipListOptimized
MaxOptThreads == 2
\* the max_level argument of the constructor of SkipListOptimized
MaxOptLevel == 2
\* the segment_count argument of the constructor of SkipListOptimized
SegmentCount == 2
\* nodes that the memory pool may construct in all
MaxAlloc == 3
\* nodes that a direct user of the memory pool may have it construct
MaxPoolNodes == 2
\* reuses of a node that a direct user of the memory pool may ask for
MaxReuse == 2
\* the longest string value that the store file is checked with
MaxValLen == 2
\* the threads that call SkipListMVCC at the same time
MaxCallers == 3

\* ------------------------------------------------------------- constants
\* the null pointer
nullptr == -1
\* the header node; the data nodes are 1, 2, ... in order of creation
_header == 0
\* the "not deleted" sentinel of delete_ts: larger than every transaction id
UINT64_MAX == MaxTxn + 100

Keys == 1..MaxKey
Values == 1..MaxVal
Txns == 1..MaxTxn
Nodes == 1..MaxKey
Levels == 0.._max_level
OptThreads == 1..MaxOptThreads
OptNodes == 1..MaxAlloc
OptLevels == 0..MaxOptLevel
Segments == 0..(SegmentCount - 1)
\* no thread: the value of a mutex that is not held
NoThread == 0
Callers == 1..MaxCallers

VARIABLES
    _next_txn_id,          \* std::atomic<uint64_t> _next_txn_id
    state,                 \* Transaction::state of the transaction with each id
    modified_nodes,        \* Transaction::modified_nodes
    _active_transactions,  \* the keys of _active_transactions
    pc,                    \* where the thread that drives each transaction is
    commit_i,              \* position of commit_transaction's loop over modified_nodes
    _skip_list_level,      \* SkipListMVCC::_skip_list_level
    node_count,            \* number of NodeMVCC objects created
    key,                   \* NodeMVCC::key
    node_level,            \* NodeMVCC::node_level
    forward,               \* NodeMVCC::forward
    version_head,          \* the version chain of each node, newest first
    _total_commits,        \* SkipListMVCC::_total_commits
    _total_aborts,         \* SkipListMVCC::_total_aborts
    _total_versions,       \* SkipListMVCC::_total_versions
    opt_skip_list_level,   \* SkipListOptimized::_skip_list_level
    opt_key,               \* NodeOpt::key
    opt_value,             \* NodeOpt::value
    opt_node_level,        \* NodeOpt::node_level
    opt_forward,           \* NodeOpt::forward
    freed,                 \* the nodes that delete_element has deleted
    _element_count,        \* SkipListOptimized::_element_count
    _allocated_count,      \* NodeMemoryPool::_allocated_count
    _reused_count,         \* NodeMemoryPool::_reused_count
    _free_list,            \* NodeMemoryPool::_free_list
    _segment_locks,        \* SegmentLockManager::_segment_locks: the holder of each
    _level_mutex,          \* SkipListOptimized::_level_mutex: its holder
    opt_global_mutex,      \* SkipListOptimized::_global_mutex: its holder
    opt_file,              \* the lines of store/dumpFile_optimized
    opc,                   \* where each thread is in its call
    arg_key,               \* the key argument of each thread's call
    opt_current,           \* the local node pointer of each thread's walk
    level_i,               \* the local level index of each thread's walk
    current_level,         \* the local copy of _skip_list_level of each thread's walk
    dump_i,                \* get_all_write_locks: the next segment to lock
    fault,                 \* the process has died on an invalid memory access
    f_pc,                  \* where the dump_file / load_file round trip is
    f_src,                 \* the value that the dumping instance holds for each key
    f_text,                \* the characters of the store file
    f_pos,                 \* the read position of _file_reader
    f_key,                 \* SkipListOptimized::load_file: *key
    f_value,               \* SkipListOptimized::load_file: *value
    f_loaded,              \* the value that the loading SkipListOptimized holds for each key
    f_chains,              \* the version chain that the loading SkipListMVCC holds for each key
    mvcc_mutex,            \* SkipListMVCC::_global_mutex: the transaction whose thread holds it
    ins_key,               \* insert_element in progress: key
    ins_value,             \* insert_element in progress: value
    ins_level,             \* insert_element in progress: random_level
    ins_update,            \* insert_element in progress: update
    ins_node,              \* insert_element in progress: new_node
    ins_i,                 \* insert_element in progress: i of the splice loop
    s_key,                 \* search_element in progress: key
    s_current,             \* search_element in progress: current
    s_i,                   \* search_element in progress: i
    s_chain0,              \* the version chain that the key's node had at the call
    s_result,              \* search_element: the bool returned and *value
    _txn_mutex,            \* SkipListMVCC::_txn_mutex: the thread that holds it
    version_mutex,         \* NodeMVCC::version_mutex of each node: the thread that holds it
    script                 \* the lock and unlock calls that each thread's call has yet to make

mvcc_vars == <<_next_txn_id, state, modified_nodes, _active_transactions, pc, commit_i,
               _skip_list_level, node_count, key, node_level, forward, version_head,
               _total_commits, _total_aborts, _total_versions>>

\* the list of SkipListOptimized
opt_list_vars == <<opt_skip_list_level, opt_key, opt_value, opt_node_level,
                   opt_forward, freed>>
\* the memory pool
pool_vars == <<_allocated_count, _reused_count, _free_list>>
\* the mutexes
lock_vars == <<_segment_locks, _level_mutex, opt_global_mutex>>
\* the locals of the threads
local_vars == <<opc, arg_key, opt_current, level_i, current_level, dump_i>>

opt_vars == <<opt_list_vars, pool_vars, lock_vars, local_vars, _element_count,
              opt_file, fault>>

\* the store file and the two instances of a dump_file / load_file round trip
file_vars == <<f_pc, f_src, f_text, f_pos, f_key, f_value, f_loaded, f_chains>>

\* the locals of an insert_element that runs statement by statement
ins_vars == <<ins_key, ins_value, ins_level, ins_update, ins_node, ins_i>>
\* the locals of a search_element that runs read by read
search_vars == <<s_key, s_current, s_i, s_chain0, s_result>>
lf_vars == <<mvcc_mutex, ins_vars, search_vars>>

\* the mutexes of SkipListMVCC (with mvcc_mutex) and the threads that call it
mutex_vars == <<_txn_mutex, version_mutex, script>>

ext_vars == <<file_vars, lf_vars, mutex_vars>>

vars == <<mvcc_vars, opt_vars, ext_vars>>

txn_vars == <<_next_txn_id, state, modified_nodes, _active_transactions, pc, commit_i,
              _total_commits, _total_aborts>>
list_vars == <<_skip_list_level, node_count, key, node_level, forward>>

\* ---------------------------------------------------------------- Version
\* a constructor that starts a version as committed
Version_committed(v, create) ==
    [value |-> v, create_ts |-> create, delete_ts |-> UINT64_MAX, is_committed |-> TRUE]

\* Version(V v, uint64_t create, uint64_t del = UINT64_MAX)
Version(v, create) ==
    [value |-> v, create_ts |-> create, delete_ts |-> UINT64_MAX, is_committed |-> FALSE]

\* a visibility test that forgets is_committed
is_visible_dirty(ver, txn_id) ==
    IF ver.create_ts = txn_id
    THEN ver.delete_ts > txn_id
    ELSE ver.create_ts < txn_id /\ ver.delete_ts > txn_id

\* Version::is_visible
is_visible(ver, txn_id) ==
    IF ver.create_ts = txn_id
    THEN ver.delete_ts > txn_id
    ELSE ver.is_committed /\ ver.create_ts < txn_id /\ ver.delete_ts > txn_id

\* --------------------------------------------------------------- NodeMVCC
\* an add_version that links the new version at the tail
add_version_tail(chain, v, txn_id) == chain \o <<Version(v, txn_id)>>

\* NodeMVCC::add_version: the new version becomes the head
add_version(chain, v, txn_id) == <<Version(v, txn_id)>> \o chain

RECURSIVE first_visible(_, _, _)
\* the loop of get_visible_version from position i of the chain
first_visible(chain, i, txn_id) ==
    IF i > Len(chain) THEN 0
    ELSE IF is_visible(chain[i], txn_id) THEN i
    ELSE first_visible(chain, i + 1, txn_id)

\* NodeMVCC::get_visible_version: the position of the first visible version in
\* the chain, 0 for nullptr
get_visible_version(chain, txn_id) == first_visible(chain, 1, txn_id)

\* NodeMVCC::mark_deleted
mark_deleted(chain, txn_id) ==
    IF chain # <<>> THEN [chain EXCEPT ![1].delete_ts = txn_id] ELSE chain

\* a commit_version that stops at the first version of the transaction
commit_version_first(chain, txn_id) ==
    [i \in 1..Len(chain) |->
        IF chain[i].create_ts = txn_id
           /\ \A j \in 1..(i - 1) : chain[j].create_ts # txn_id
        THEN [chain[i] EXCEPT !.is_committed = TRUE]
        ELSE chain[i]]

\* NodeMVCC::commit_version
commit_version(chain, txn_id) ==
    [i \in 1..Len(chain) |->
        IF chain[i].create_ts = txn_id
        THEN [chain[i] EXCEPT !.is_committed = TRUE]
        ELSE chain[i]]

\* NodeMVCC::gc_versions: the head stays, every later version with
\* delete_ts < min_active_txn_id is unlinked
gc_versions(chain, min_active_txn_id) ==
    IF chain = <<>> THEN chain
    ELSE <<chain[1]>> \o
         SelectSeq(Tail(chain), LAMBDA ver : ~(ver.delete_ts < min_active_txn_id))

\* ------------------------------------------------------------ the skip list
RECURSIVE walk(_, _, _)
\* while (current->forward[i] && current->forward[i]->get_key() < key)
walk(current, i, k) ==
    IF forward[current][i] # nullptr /\ key[forward[current][i]] < k
    THEN walk(forward[current][i], i, k)
    ELSE current

RECURSIVE descend(_, _, _, _)
\* for (int i = _skip_list_level; i >= 0; i--) { walk; update[i] = current; }
descend(current, i, k, update) ==
    LET c == walk(current, i, k)
        u == [update EXCEPT ![i] = c]
    IN  IF i = 0 THEN u ELSE descend(c, i - 1, k, u)

\* the update vector of a search for k
find_update(k) ==
    descend(_header, _skip_list_level, k, [i \in Levels |-> nullptr])

\* current = current->forward[0] after the descent
find_node(k) == forward[find_update(k)[0]][0]

\* SkipListMVCC::get_min_active_txn_id
get_min_active_txn_id ==
    IF _active_transactions = {} THEN _next_txn_id
    ELSE CHOOSE m \in _active_transactions : \A x \in _active_transactions : m <= x

\* SkipListMVCC::search_element for an active transaction, over the version
\* chains given: the node, the position of the version returned (0 = none),
\* the bool returned and *value
search_in(chains, txn_id, k) ==
    LET current == find_node(k)
        pos == IF current # nullptr /\ key[current] = k
               THEN get_visible_version(chains[current], txn_id)
               ELSE 0
    IN  [node |-> current, pos |-> pos, found |-> pos # 0,
         value |-> IF pos # 0 THEN chains[current][pos].value ELSE 0]

\* what search_element(txn, k, &value) returns in this state
search_element_active(txn_id, k) == search_in(version_head, txn_id, k)

RECURSIVE range_collect(_, _, _, _)
\* range_query, line 527-533: the (node, version) pairs met along forward[0]
\* up to end_key
range_collect(chains, current, txn_id, end_key) ==
    IF current = nullptr \/ key[current] > end_key THEN <<>>
    ELSE LET pos == get_visible_version(chains[current], txn_id)
         IN  (IF pos # 0 THEN << <<current, pos>> >> ELSE <<>>)
             \o range_collect(chains, forward[current][0], txn_id, end_key)

\* a range_query that collects from the first node of the list
range_versions_from_header(chains, txn_id, start_key, end_key) ==
    IF start_key > end_key THEN <<>>
    ELSE range_collect(chains, forward[_header][0], txn_id, end_key)

\* range_query for an active transaction, line 511-533: the versions it reads
range_versions(chains, txn_id, start_key, end_key) ==
    IF start_key > end_key THEN <<>>
    ELSE range_collect(chains, forward[find_update(start_key)[0]][0], txn_id, end_key)

\* SkipListMVCC::range_query for an active transaction: the pairs it returns
range_query_in(chains, txn_id, start_key, end_key) ==
    LET rv == range_versions(chains, txn_id, start_key, end_key)
    IN  [i \in 1..Len(rv) |-> <<key[rv[i][1]], chains[rv[i][1]][rv[i][2]].value>>]

RECURSIVE dump_collect(_, _, _)
\* dump_file, line 619-625: the (node, version) pairs written
dump_collect(chains, node, txn_id) ==
    IF node = nullptr THEN <<>>
    ELSE LET pos == get_visible_version(chains[node], txn_id)
         IN  (IF pos # 0 THEN << <<node, pos>> >> ELSE <<>>)
             \o dump_collect(chains, forward[node][0], txn_id)

\* dump_file: the versions written, read as transaction _next_txn_id
dump_versions(chains) == dump_collect(chains, forward[_header][0], _next_txn_id)

\* SkipListMVCC::dump_file: the key:value lines written
dump_file_in(chains) ==
    LET dv == dump_versions(chains)
    IN  [i \in 1..Len(dv) |-> <<key[dv[i][1]], chains[dv[i][1]][dv[i][2]].value>>]

\* what insert_element(txn, k, v) returns, line 375-378, 403, 429
insert_element_result(t, k) == IF state[t] # "ACTIVE" THEN -1 ELSE 0

\* what search_element(txn, k, &value) returns, line 435-438, 450-466
search_element_result(t, k) ==
    IF state[t] # "ACTIVE"
    THEN [found |-> FALSE, value |-> 0]
    ELSE [found |-> search_element_active(t, k).found,
          value |-> search_element_active(t, k).value]

\* what range_query(txn, start_key, end_key) returns, line 506-537
range_query(t, start_key, end_key) ==
    IF state[t] # "ACTIVE" THEN <<>>
    ELSE range_query_in(version_head, t, start_key, end_key)

\* what commit_transaction(txn) returns, line 329-331, 349
commit_transaction_result(t) == state[t] = "ACTIVE"

\* ------------------------------------------------------------------- Init
\* SkipListOptimized::SkipListOptimized, SegmentLockManager and NodeMemoryPool
\* constructors; every thread is outside the calls
InitOpt ==
    /\ opt_skip_list_level = 0
    /\ opt_key = [n \in OptNodes |-> 0]
    /\ opt_value = [n \in OptNodes |-> 0]
    /\ opt_node_level = [n \in OptNodes \cup {_header} |->
                             IF n = _header THEN MaxOptLevel ELSE 0]
    /\ opt_forward = [n \in OptNodes \cup {_header} |-> [i \in OptLevels |-> nullptr]]
    /\ freed = {}
    /\ _element_count = 0
    /\ _allocated_count = 0
    /\ _reused_count = 0
    /\ _free_list = <<>>
    /\ _segment_locks = [s \in Segments |-> NoThread]
    /\ _level_mutex = NoThread
    /\ opt_global_mutex = NoThread
    /\ opt_file = <<>>
    /\ opc = [t \in OptThreads |-> "idle"]
    /\ arg_key = [t \in OptThreads |-> 0]
    /\ opt_current = [t \in OptThreads |-> nullptr]
    /\ level_i = [t \in OptThreads |-> 0]
    /\ current_level = [t \in OptThreads |-> 0]
    /\ dump_i = [t \in OptThreads |-> 0]
    /\ fault = FALSE

\* SkipListMVCC::SkipListMVCC and the TransactionManager constructor
InitMVCC ==
    /\ _next_txn_id = 1
    /\ state = [t \in Txns |-> "NONE"]
    /\ modified_nodes = [t \in Txns |-> <<>>]
    /\ _active_transactions = {}
    /\ pc = [t \in Txns |-> "new"]
    /\ commit_i = [t \in Txns |-> 0]
    /\ _skip_list_level = 0
    /\ node_count = 0
    /\ key = [n \in Nodes |-> 0]
    /\ node_level = [n \in Nodes \cup {_header} |-> IF n = _header THEN _max_level ELSE 0]
    /\ forward = [n \in Nodes \cup {_header} |-> [i \in Levels |-> nullptr]]
    /\ version_head = [n \in Nodes |-> <<>>]
    /\ _total_commits = 0
    /\ _total_aborts = 0
    /\ _total_versions = 0

\* no store file is open and both instances of the round trip are empty
InitFile ==
    /\ f_pc = "source"
    /\ f_src = {}
    /\ f_text = <<>>
    /\ f_pos = 1
    /\ f_key = <<>>
    /\ f_value = <<>>
    /\ f_loaded = {}
    /\ f_chains = [k \in Keys |-> <<>>]

\* no insert_element and no search_element is in progress
InitLockFree ==
    /\ mvcc_mutex = NoThread
    /\ ins_key = 0
    /\ ins_value = 0
    /\ ins_level = 0
    /\ ins_update = [i \in Levels |-> nullptr]
    /\ ins_node = nullptr
    /\ ins_i = 0
    /\ s_key = 0
    /\ s_current = nullptr
    /\ s_i = 0
    /\ s_chain0 = <<>>
    /\ s_result = <<FALSE, 0>>

\* no mutex is held and every thread is outside the calls
InitMutex ==
    /\ _txn_mutex = NoThread
    /\ version_mutex = [n \in Nodes |-> NoThread]
    /\ script = [th \in Callers |-> <<>>]

Init == InitMVCC /\ InitOpt /\ InitFile /\ InitLockFree /\ InitMutex

\* ------------------------------------------------------ transaction manager
\* transactions begun and not finished, one per thread
running == {t \in Txns : state[t] = "ACTIVE"}

\* a begin_transaction that reads the counter and leaves it as it is
begin_fetch_kept ==
    /\ _next_txn_id <= MaxTxn
    /\ Cardinality(running) < MaxThreads
    /\ state' = [state EXCEPT ![_next_txn_id] = "ACTIVE"]
    /\ pc' = [pc EXCEPT ![_next_txn_id] = "begin"]
    /\ UNCHANGED <<_next_txn_id, modified_nodes, _active_transactions, commit_i,
                   _total_commits, _total_aborts, list_vars, version_head,
                   _total_versions>>
    /\ UNCHANGED <<opt_vars, ext_vars>>

\* begin_transaction, line 314-315: fetch the id and construct the transaction
begin_fetch ==
    /\ _next_txn_id <= MaxTxn
    /\ Cardinality(running) < MaxThreads
    /\ state' = [state EXCEPT ![_next_txn_id] = "ACTIVE"]
    /\ pc' = [pc EXCEPT ![_next_txn_id] = "begin"]
    /\ _next_txn_id' = _next_txn_id + 1
    /\ UNCHANGED <<modified_nodes, _active_transactions, commit_i, _total_commits,
                   _total_aborts, list_vars, version_head, _total_versions>>
    /\ UNCHANGED <<opt_vars, ext_vars>>

\* begin_transaction, line 317-323: register under _txn_mutex and return
begin_register(t) ==
    /\ pc[t] = "begin"
    /\ _active_transactions' = _active_transactions \cup {t}
    /\ pc' = [pc EXCEPT ![t] = "ready"]
    /\ UNCHANGED <<_next_txn_id, state, modified_nodes, commit_i, _total_commits,
                   _total_aborts, list_vars, version_head, _total_versions>>
    /\ UNCHANGED <<opt_vars, ext_vars>>

\* commit_transaction, line 329-331: the call and its is_active test; on a
\* transaction that is not active it returns false and changes nothing
commit_transaction(t) ==
    /\ pc[t] = "ready"
    /\ IF state[t] # "ACTIVE"
       THEN UNCHANGED <<pc, commit_i>>
       ELSE /\ pc' = [pc EXCEPT ![t] = "commit"]
            /\ commit_i' = [commit_i EXCEPT ![t] = 1]
    /\ UNCHANGED <<_next_txn_id, state, modified_nodes, _active_transactions,
                   _total_commits, _total_aborts, list_vars, version_head,
                   _total_versions>>
    /\ UNCHANGED <<opt_vars, ext_vars>>

\* commit_transaction, line 334-336: one iteration, under the node's version_mutex
commit_node(t) ==
    /\ pc[t] = "commit"
    /\ commit_i[t] <= Len(modified_nodes[t])
    /\ LET node == modified_nodes[t][commit_i[t]]
       IN  version_head' = [version_head EXCEPT ![node] = commit_version(@, t)]
    /\ commit_i' = [commit_i EXCEPT ![t] = @ + 1]
    /\ UNCHANGED <<_next_txn_id, state, modified_nodes, _active_transactions, pc,
                   _total_commits, _total_aborts, list_vars, _total_versions>>
    /\ UNCHANGED <<opt_vars, ext_vars>>

\* commit_transaction, line 338-349: txn->commit(), the erase under _txn_mutex,
\* the count, return true.  The state field is written and read by the
\* transaction's own thread only, so its write is taken together with the erase.
commit_finish(t) ==
    /\ pc[t] = "commit"
    /\ commit_i[t] > Len(modified_nodes[t])
    /\ state' = [state EXCEPT ![t] = "COMMITTED"]
    /\ _active_transactions' = _active_transactions \ {t}
    /\ _total_commits' = _total_commits + 1
    /\ pc' = [pc EXCEPT ![t] = "ready"]
    /\ commit_i' = [commit_i EXCEPT ![t] = 0]
    /\ UNCHANGED <<_next_txn_id, modified_nodes, _total_aborts, list_vars,
                   version_head, _total_versions>>
    /\ UNCHANGED <<opt_vars, ext_vars>>

\* an abort_transaction without the is_active test
abort_transaction_unguarded(t) ==
    /\ pc[t] = "ready"
    /\ state' = [state EXCEPT ![t] = "ABORTED"]
    /\ _active_transactions' = _active_transactions \ {t}
    /\ _total_aborts' = _total_aborts + 1
    /\ UNCHANGED <<_next_txn_id, modified_nodes, pc, commit_i, _total_commits,
                   list_vars, version_head, _total_versions>>
    /\ UNCHANGED <<opt_vars, ext_vars>>

\* SkipListMVCC::abort_transaction: the is_active test, txn->abort(), the erase
\* under _txn_mutex and the count; on a transaction that is not active it
\* changes nothing
abort_transaction(t) ==
    /\ pc[t] = "ready"
    /\ IF state[t] # "ACTIVE"
       THEN UNCHANGED <<state, _active_transactions, _total_aborts>>
       ELSE /\ state' = [state EXCEPT ![t] = "ABORTED"]
            /\ _active_transactions' = _active_transactions \ {t}
            /\ _total_aborts' = _total_aborts + 1
    /\ UNCHANGED <<_next_txn_id, modified_nodes, pc, commit_i, _total_commits,
                   list_vars, version_head, _total_versions>>
    /\ UNCHANGED <<opt_vars, ext_vars>>

\* ------------------------------------------------------------- operations
\* insert_element, line 395-404: the key has a node, a version is added to it
insert_existing(t, current, v) ==
    /\ version_head' = [version_head EXCEPT ![current] = add_version(@, v, t)]
    /\ modified_nodes' = [modified_nodes EXCEPT ![t] = Append(@, current)]
    /\ _total_versions' = _total_versions + 1
    /\ UNCHANGED list_vars

\* insert_element, line 406-424: a node of random_level is created, given its
\* first version and spliced in after update[i] at the levels 0..random_level
insert_new(t, k, v, random_level, update) ==
    LET new_node == node_count + 1
        upd == [i \in Levels |->
                   IF i > _skip_list_level /\ i <= random_level THEN _header
                   ELSE update[i]]
    IN  /\ node_count' = new_node
        /\ key' = [key EXCEPT ![new_node] = k]
        /\ node_level' = [node_level EXCEPT ![new_node] = random_level]
        /\ _skip_list_level' =
               IF random_level > _skip_list_level THEN random_level
               ELSE _skip_list_level
        /\ version_head' = [version_head EXCEPT ![new_node] = add_version(@, v, t)]
        /\ modified_nodes' = [modified_nodes EXCEPT ![t] = Append(@, new_node)]
        /\ _total_versions' = _total_versions + 1
        /\ forward' =
               [n \in Nodes \cup {_header} |->
                  [i \in Levels |->
                     IF i <= random_level /\ n = new_node THEN forward[upd[i]][i]
                     ELSE IF i <= random_level /\ n = upd[i] THEN new_node
                     ELSE forward[n][i]]]

\* an insert_element without the is_active test
insert_element_unguarded(t, k, v, random_level) ==
    /\ pc[t] = "ready"
    /\ _total_versions < MaxVersions
    /\ LET update == find_update(k)
           current == forward[update[0]][0]
       IN  IF current # nullptr /\ key[current] = k
           THEN insert_existing(t, current, v)
           ELSE insert_new(t, k, v, random_level, update)
    /\ UNCHANGED <<_next_txn_id, state, _active_transactions, pc, commit_i,
                   _total_commits, _total_aborts>>
    /\ UNCHANGED <<opt_vars, ext_vars>>

\* SkipListMVCC::insert_element, the whole call under _global_mutex;
\* random_level is what get_random_level returns.  On a transaction that is
\* not active it returns -1 and changes nothing.
insert_element(t, k, v, random_level) ==
    /\ pc[t] = "ready"
    /\ IF state[t] # "ACTIVE"
       THEN UNCHANGED <<modified_nodes, list_vars, version_head, _total_versions>>
       ELSE /\ _total_versions < MaxVersions
            /\ LET update == find_update(k)
                   current == forward[update[0]][0]
               IN  IF current # nullptr /\ key[current] = k
                   THEN insert_existing(t, current, v)
                   ELSE insert_new(t, k, v, random_level, update)
    /\ UNCHANGED <<_next_txn_id, state, _active_transactions, pc, commit_i,
                   _total_commits, _total_aborts>>
    /\ UNCHANGED <<opt_vars, ext_vars>>

\* SkipListMVCC::search_element: the node is found without a lock and the
\* version is chosen under the node's version_mutex; the call changes nothing
\* and returns search_element_active(t, k)
search_element(t, k) ==
    /\ pc[t] = "ready"
    /\ UNCHANGED vars

\* SkipListMVCC::delete_element, the whole call under _global_mutex
delete_element(t, k) ==
    /\ pc[t] = "ready"
    /\ IF state[t] # "ACTIVE"
       THEN UNCHANGED version_head
       ELSE /\ LET current == find_node(k)
               IN  IF current # nullptr /\ key[current] = k
                   THEN version_head' =
                            [version_head EXCEPT ![current] = mark_deleted(@, t)]
                   ELSE UNCHANGED version_head
    /\ UNCHANGED <<txn_vars, list_vars, _total_versions>>
    /\ UNCHANGED <<opt_vars, ext_vars>>

\* ----------------------------------------------------------------------- gc
RECURSIVE gc_walk(_, _, _)
\* gc, line 583-589: gc_versions on every node met along forward[0]
gc_walk(current, min_active_txn_id, chains) ==
    IF current = nullptr THEN chains
    ELSE gc_walk(forward[current][0], min_active_txn_id,
                 [chains EXCEPT ![current] = gc_versions(@, min_active_txn_id)])

\* the version chains gc() leaves when it runs in this state
gc_result == gc_walk(forward[_header][0], get_min_active_txn_id, version_head)

\* SkipListMVCC::gc, the whole call under _global_mutex: the minimum is read
\* once (under _txn_mutex), then every node is collected.  Inserts and deletes
\* wait for _global_mutex; gc_versions changes no create_ts, delete_ts or
\* is_committed and runs under the node's version_mutex, so it commutes with
\* the commit_version, get_visible_version, begin and abort steps that other
\* threads take between two nodes.
gc ==
    /\ UNCHANGED <<opt_vars, ext_vars>>
    /\ version_head' = gc_result
    /\ UNCHANGED <<txn_vars, list_vars, _total_versions>>

Next ==
    \/ begin_fetch
    \/ \E t \in Txns : begin_register(t)
    \/ \E t \in Txns : commit_transaction(t)
    \/ \E t \in Txns : commit_node(t)
    \/ \E t \in Txns : commit_finish(t)
    \/ \E t \in Txns : abort_transaction(t)
    \/ \E t \in Txns, k \in Keys, v \in Values, l \in 1.._max_level :
           insert_element(t, k, v, l)
    \/ \E t \in Txns, k \in Keys : search_element(t, k)
    \/ \E t \in Txns, k \in Keys : delete_element(t, k)
    \/ gc

Spec == Init /\ [][Next]_vars

\* ============================================================ SkipListOptimized
\* SegmentLockManager::get_segment_index: hash_value % _segment_count, where
\* std::hash of an int is the int itself
get_segment_index(k) == k % SegmentCount

RECURSIVE opt_walk(_, _, _)
\* insert_element, line 204-206: the inner while loop at level i
opt_walk(cur, i, k) ==
    IF opt_forward[cur][i] # nullptr /\ opt_key[opt_forward[cur][i]] < k
    THEN opt_walk(opt_forward[cur][i], i, k)
    ELSE cur

RECURSIVE opt_descend(_, _, _, _)
\* insert_element, line 203-208: the for loop from level i down to 0
opt_descend(cur, i, k, update) ==
    LET c == opt_walk(cur, i, k)
    IN  IF i = 0 THEN [update EXCEPT ![0] = c]
        ELSE opt_descend(c, i - 1, k, [update EXCEPT ![i] = c])

\* a search that stops at once: every level's predecessor is the header
opt_find_update_header(k) == [i \in OptLevels |-> _header]

\* insert_element, line 199-208: the update array of the search for k
opt_find_update(k) ==
    opt_descend(_header, opt_skip_list_level, k, [i \in OptLevels |-> nullptr])

\* insert_element, line 210: current = current->forward[0]
opt_find_node(k) == opt_forward[opt_find_update(k)[0]][0]

\* line 213: current != NULL && current->get_key() == key
present(k) == opt_find_node(k) # nullptr /\ opt_key[opt_find_node(k)] = k

\* the thread leaves its call: the locals go out of scope
return(t) ==
    /\ opc' = [opc EXCEPT ![t] = "idle"]
    /\ arg_key' = [arg_key EXCEPT ![t] = 0]
    /\ opt_current' = [opt_current EXCEPT ![t] = nullptr]
    /\ level_i' = [level_i EXCEPT ![t] = 0]
    /\ current_level' = [current_level EXCEPT ![t] = 0]
    /\ dump_i' = [dump_i EXCEPT ![t] = 0]

\* the thread moves on inside its call
goto(t, label) ==
    /\ opc' = [opc EXCEPT ![t] = label]
    /\ UNCHANGED <<arg_key, opt_current, level_i, current_level, dump_i>>

\* a segment lock that is taken without waiting for its holder
lock_segment_taken(t, label) ==
    /\ ~fault
    /\ _segment_locks' =
           [_segment_locks EXCEPT ![get_segment_index(arg_key[t])] = t]
    /\ goto(t, label)
    /\ UNCHANGED <<mvcc_vars, ext_vars, opt_list_vars, pool_vars, _level_mutex,
                   opt_global_mutex, _element_count, opt_file, fault>>

\* get_write_lock / get_read_lock, segment_lock.h line 61-72: both lock the
\* std::mutex of the segment; the thread waits while another one holds it
lock_segment(t, label) ==
    /\ ~fault
    /\ _segment_locks[get_segment_index(arg_key[t])] = NoThread
    /\ _segment_locks' =
           [_segment_locks EXCEPT ![get_segment_index(arg_key[t])] = t]
    /\ goto(t, label)
    /\ UNCHANGED <<mvcc_vars, ext_vars, opt_list_vars, pool_vars, _level_mutex,
                   opt_global_mutex, _element_count, opt_file, fault>>

\* std::lock_guard<std::mutex> level_lock(_level_mutex), held to the end of the call
lock_level(t, label) ==
    /\ ~fault
    /\ _level_mutex = NoThread
    /\ _level_mutex' = t
    /\ goto(t, label)
    /\ UNCHANGED <<mvcc_vars, ext_vars, opt_list_vars, pool_vars, _segment_locks,
                   opt_global_mutex, _element_count, opt_file, fault>>

\* the end of insert_element and delete_element: level_lock and lock are released
unlock_writer(t) ==
    /\ _level_mutex' = NoThread
    /\ _segment_locks' =
           [_segment_locks EXCEPT ![get_segment_index(arg_key[t])] = NoThread]
    /\ UNCHANGED opt_global_mutex

\* threads inside insert_element that have not yet created their node
inserting == {u \in OptThreads : opc[u] \in {"ins_lock", "ins_level", "ins_body"}}

\* ---------------------------------------------------------- insert_element
\* a thread calls insert_element(key, value), line 189-191
opt_insert_call(t, k) ==
    /\ ~fault
    /\ opc[t] = "idle"
    /\ _allocated_count + Cardinality(inserting) < MaxAlloc
    /\ opc' = [opc EXCEPT ![t] = "ins_lock"]
    /\ arg_key' = [arg_key EXCEPT ![t] = k]
    /\ UNCHANGED <<mvcc_vars, ext_vars, opt_list_vars, pool_vars, lock_vars, opt_current,
                   level_i, current_level, dump_i, _element_count, opt_file, fault>>

\* insert_element, line 194
opt_insert_lock(t) == opc[t] = "ins_lock" /\ lock_segment(t, "ins_level")

\* insert_element, line 197
opt_insert_level(t) == opc[t] = "ins_level" /\ lock_level(t, "ins_body")

\* NodeMemoryPool::allocate, memory_pool.h line 59-79, under _pool_mutex: the
\* free list is empty (deallocate is never called), so a node is constructed
allocate(k, v, level) ==
    LET node == _allocated_count + 1
    IN  /\ _free_list = <<>>
        /\ _allocated_count' = node
        /\ UNCHANGED <<_reused_count, _free_list>>
        /\ opt_key' = [opt_key EXCEPT ![node] = k]
        /\ opt_value' = [opt_value EXCEPT ![node] = v]
        /\ opt_node_level' = [opt_node_level EXCEPT ![node] = level]

\* insert_element as an upsert: on a key that exists the value is replaced
opt_insert_body_overwrite(t, v, random_level) ==
    /\ ~fault
    /\ opc[t] = "ins_body"
    /\ LET k == arg_key[t]
           update == opt_find_update(k)
           cur == opt_forward[update[0]][0]
           inserted_node == _allocated_count + 1
           upd == [i \in OptLevels |->
                      IF i > opt_skip_list_level /\ i <= random_level THEN _header
                      ELSE update[i]]
       IN  IF cur # nullptr /\ opt_key[cur] = k
           THEN /\ return(t)
                /\ unlock_writer(t)
                /\ opt_value' = [opt_value EXCEPT ![cur] = v]
                /\ UNCHANGED <<opt_skip_list_level, opt_key, opt_node_level,
                               opt_forward, freed, pool_vars>>
           ELSE /\ opt_skip_list_level' =
                       IF random_level > opt_skip_list_level THEN random_level
                       ELSE opt_skip_list_level
                /\ allocate(k, v, random_level)
                /\ opt_forward' =
                       [n \in OptNodes \cup {_header} |->
                          [i \in OptLevels |->
                             IF i <= random_level /\ n = inserted_node
                             THEN opt_forward[upd[i]][i]
                             ELSE IF i <= random_level /\ n = upd[i]
                             THEN inserted_node
                             ELSE opt_forward[n][i]]]
                /\ goto(t, "ins_count")
                /\ UNCHANGED <<freed, lock_vars>>
    /\ UNCHANGED <<mvcc_vars, ext_vars, _element_count, opt_file, fault>>

\* insert_element, line 199-236, under the segment lock and _level_mutex: the
\* search, and either "exists" (return 1) or the new node spliced in
opt_insert_body(t, v, random_level) ==
    /\ ~fault
    /\ opc[t] = "ins_body"
    /\ LET k == arg_key[t]
           update == opt_find_update(k)
           cur == opt_forward[update[0]][0]
           inserted_node == _allocated_count + 1
           upd == [i \in OptLevels |->
                      IF i > opt_skip_list_level /\ i <= random_level THEN _header
                      ELSE update[i]]
       IN  IF cur # nullptr /\ opt_key[cur] = k
           THEN /\ return(t)
                /\ unlock_writer(t)
                /\ UNCHANGED <<opt_list_vars, pool_vars>>
           ELSE /\ opt_skip_list_level' =
                       IF random_level > opt_skip_list_level THEN random_level
                       ELSE opt_skip_list_level
                /\ allocate(k, v, random_level)
                /\ opt_forward' =
                       [n \in OptNodes \cup {_header} |->
                          [i \in OptLevels |->
                             IF i <= random_level /\ n = inserted_node
                             THEN opt_forward[upd[i]][i]
                             ELSE IF i <= random_level /\ n = upd[i]
                             THEN inserted_node
                             ELSE opt_forward[n][i]]]
                /\ goto(t, "ins_count")
                /\ UNCHANGED <<freed, lock_vars>>
    /\ UNCHANGED <<mvcc_vars, ext_vars, _element_count, opt_file, fault>>

\* insert_element without line 241-244: the node is linked, the count is kept
opt_insert_count_kept(t) ==
    /\ ~fault
    /\ opc[t] = "ins_count"
    /\ unlock_writer(t)
    /\ return(t)
    /\ UNCHANGED <<mvcc_vars, ext_vars, opt_list_vars, pool_vars, _element_count, opt_file, fault>>

\* insert_element, line 241-247: the count under _count_mutex, return 0
opt_insert_count(t) ==
    /\ ~fault
    /\ opc[t] = "ins_count"
    /\ _element_count' = _element_count + 1
    /\ unlock_writer(t)
    /\ return(t)
    /\ UNCHANGED <<mvcc_vars, ext_vars, opt_list_vars, pool_vars, opt_file, fault>>

\* ---------------------------------------------------------- delete_element
\* a thread calls delete_element(key), line 322-324
opt_delete_call(t, k) ==
    /\ ~fault
    /\ opc[t] = "idle"
    /\ opc' = [opc EXCEPT ![t] = "del_lock"]
    /\ arg_key' = [arg_key EXCEPT ![t] = k]
    /\ UNCHANGED <<mvcc_vars, ext_vars, opt_list_vars, pool_vars, lock_vars, opt_current,
                   level_i, current_level, dump_i, _element_count, opt_file, fault>>

\* delete_element, line 327
opt_delete_lock(t) == opc[t] = "del_lock" /\ lock_segment(t, "del_level")

\* delete_element, line 330
opt_delete_level(t) == opc[t] = "del_level" /\ lock_level(t, "del_body")

\* the unlink loop cut short: the node is taken out of the first level only
unlink_one_level(i, cur, update, fwd) ==
    IF fwd[update[i]][i] # cur THEN fwd
    ELSE [fwd EXCEPT ![update[i]] = [@ EXCEPT ![i] = fwd[cur][i]]]

RECURSIVE unlink(_, _, _, _)
\* delete_element, line 345-349: the node is taken out level by level, up to
\* the first level whose predecessor does not point to it
unlink(i, cur, update, fwd) ==
    IF i > opt_skip_list_level \/ fwd[update[i]][i] # cur THEN fwd
    ELSE unlink(i + 1, cur, update,
                [fwd EXCEPT ![update[i]] = [@ EXCEPT ![i] = fwd[cur][i]]])

\* a shrink that lowers the level by one step at most
shrink_once(level, fwd) ==
    IF level > 0 /\ fwd[_header][level] = nullptr THEN level - 1 ELSE level

RECURSIVE shrink(_, _)
\* delete_element, line 352-354: empty top levels are dropped
shrink(level, fwd) ==
    IF level > 0 /\ fwd[_header][level] = nullptr THEN shrink(level - 1, fwd)
    ELSE level

\* delete_element, line 332-360, under the segment lock and _level_mutex: the
\* search, and the node unlinked and deleted if the key is there
opt_delete_body(t) ==
    /\ ~fault
    /\ opc[t] = "del_body"
    /\ LET k == arg_key[t]
           update == opt_find_update(k)
           cur == opt_forward[update[0]][0]
       IN  IF cur # nullptr /\ opt_key[cur] = k
           THEN LET fwd == unlink(0, cur, update, opt_forward)
                IN  /\ opt_forward' = [fwd EXCEPT ![cur] = [i \in OptLevels |-> nullptr]]
                    /\ opt_skip_list_level' = shrink(opt_skip_list_level, fwd)
                    /\ freed' = freed \cup {cur}
                    /\ opt_key' = [opt_key EXCEPT ![cur] = 0]
                    /\ opt_value' = [opt_value EXCEPT ![cur] = 0]
                    /\ opt_node_level' = [opt_node_level EXCEPT ![cur] = 0]
                    /\ goto(t, "del_count")
                    /\ UNCHANGED lock_vars
           ELSE /\ return(t)
                /\ unlock_writer(t)
                /\ UNCHANGED opt_list_vars
    /\ UNCHANGED <<mvcc_vars, ext_vars, pool_vars, _element_count, opt_file, fault>>

\* delete_element without line 363-366: the node is gone, the count is kept
opt_delete_count_kept(t) ==
    /\ ~fault
    /\ opc[t] = "del_count"
    /\ unlock_writer(t)
    /\ return(t)
    /\ UNCHANGED <<mvcc_vars, ext_vars, opt_list_vars, pool_vars, _element_count, opt_file, fault>>

\* delete_element, line 363-368: the count under _count_mutex, return
opt_delete_count(t) ==
    /\ ~fault
    /\ opc[t] = "del_count"
    /\ _element_count' = _element_count - 1
    /\ unlock_writer(t)
    /\ return(t)
    /\ UNCHANGED <<mvcc_vars, ext_vars, opt_list_vars, pool_vars, opt_file, fault>>

\* ------------------------------------------------- reads without the level lock
\* what a read of n->forward[i] may give.  A deleted node is freed memory: the
\* read may give null or the address of any node constructed so far
read_forward(n, i) ==
    IF n \in freed THEN (1.._allocated_count) \cup {nullptr}
    ELSE {opt_forward[n][i]}

\* what a read of n->get_key() may give; of a deleted node, any key
read_key(n) == IF n \in freed THEN Keys ELSE {opt_key[n]}

\* what a read of n->get_value() may give; of a deleted node, any value
read_value(n) == IF n \in freed THEN Values ELSE {opt_value[n]}

\* an access to the freed memory of a deleted node may also end the process
crash ==
    /\ fault' = TRUE
    /\ UNCHANGED <<mvcc_vars, ext_vars, opt_list_vars, pool_vars, lock_vars, local_vars,
                   _element_count, opt_file>>

\* ---------------------------------- search_element and search_element_silent
\* a thread calls search_element(key) or search_element_silent(key), line 252-256
opt_search_call(t, k) ==
    /\ ~fault
    /\ opc[t] = "idle"
    /\ opc' = [opc EXCEPT ![t] = "sr_lock"]
    /\ arg_key' = [arg_key EXCEPT ![t] = k]
    /\ UNCHANGED <<mvcc_vars, ext_vars, opt_list_vars, pool_vars, lock_vars, opt_current,
                   level_i, current_level, dump_i, _element_count, opt_file, fault>>

\* search_element, line 259
opt_search_lock(t) == opc[t] = "sr_lock" /\ lock_segment(t, "sr_level")

\* search_element, line 262-268: _skip_list_level is copied under _level_mutex,
\* which is released at once; current = _header
opt_search_level(t) ==
    /\ ~fault
    /\ opc[t] = "sr_level"
    /\ _level_mutex = NoThread
    /\ opc' = [opc EXCEPT ![t] = "sr_walk"]
    /\ current_level' = [current_level EXCEPT ![t] = opt_skip_list_level]
    /\ level_i' = [level_i EXCEPT ![t] = opt_skip_list_level]
    /\ opt_current' = [opt_current EXCEPT ![t] = _header]
    /\ UNCHANGED <<mvcc_vars, ext_vars, opt_list_vars, pool_vars, lock_vars, arg_key, dump_i,
                   _element_count, opt_file, fault>>

\* search_element, line 270-274: one test of the while condition at level i,
\* with the step forward, the step down or the end of the for loop it leads to
opt_search_step(t) ==
    /\ ~fault
    /\ opc[t] = "sr_walk"
    /\ LET cur == opt_current[t]
           i == level_i[t]
       IN  \/ cur \in freed /\ crash
           \/ \E next \in read_forward(cur, i) :
                 \/ next \in freed /\ crash
                 \/ \E next_key \in (IF next = nullptr THEN {0} ELSE read_key(next)) :
                       /\ IF next # nullptr /\ next_key < arg_key[t]
                          THEN /\ opt_current' = [opt_current EXCEPT ![t] = next]
                               /\ UNCHANGED <<opc, level_i>>
                          ELSE IF i > 0
                          THEN /\ level_i' = [level_i EXCEPT ![t] = i - 1]
                               /\ UNCHANGED <<opc, opt_current>>
                          ELSE /\ opc' = [opc EXCEPT ![t] = "sr_end"]
                               /\ UNCHANGED <<opt_current, level_i>>
                       /\ UNCHANGED <<mvcc_vars, ext_vars, opt_list_vars, pool_vars, lock_vars,
                                      arg_key, current_level, dump_i, _element_count,
                                      opt_file, fault>>

\* search_element, line 276-284: current = current->forward[0], the key is
\* compared, the call returns and the segment lock is released
opt_search_end(t) ==
    /\ ~fault
    /\ opc[t] = "sr_end"
    /\ LET cur == opt_current[t]
       IN  \/ cur \in freed /\ crash
           \/ \E next \in read_forward(cur, 0) :
                 \/ next \in freed /\ crash
                 \/ /\ return(t)
                    /\ _segment_locks' =
                           [_segment_locks EXCEPT
                               ![get_segment_index(arg_key[t])] = NoThread]
                    /\ UNCHANGED <<mvcc_vars, ext_vars, opt_list_vars, pool_vars, _level_mutex,
                                   opt_global_mutex, _element_count, opt_file, fault>>

\* what search_element(k) returns when no writer runs beside it
opt_search_element(k) == present(k)

\* ------------------------------------------------------------- display_list
\* a thread calls display_list()
opt_display_call(t) ==
    /\ ~fault
    /\ opc[t] = "idle"
    /\ opc' = [opc EXCEPT ![t] = "dl_lock"]
    /\ UNCHANGED <<mvcc_vars, ext_vars, opt_list_vars, pool_vars, lock_vars, arg_key,
                   opt_current, level_i, current_level, dump_i, _element_count,
                   opt_file, fault>>

\* display_list, line 373: _global_mutex, held to the end of the call
opt_display_lock(t) ==
    /\ ~fault
    /\ opc[t] = "dl_lock"
    /\ opt_global_mutex = NoThread
    /\ opt_global_mutex' = t
    /\ goto(t, "dl_level")
    /\ UNCHANGED <<mvcc_vars, ext_vars, opt_list_vars, pool_vars, _segment_locks, _level_mutex,
                   _element_count, opt_file, fault>>

\* display_list, line 376-384: _skip_list_level is copied under _level_mutex;
\* the walk starts at level 0 with node = _header->forward[0]
opt_display_level(t) ==
    /\ ~fault
    /\ opc[t] = "dl_level"
    /\ _level_mutex = NoThread
    /\ opc' = [opc EXCEPT ![t] = "dl_walk"]
    /\ current_level' = [current_level EXCEPT ![t] = opt_skip_list_level]
    /\ level_i' = [level_i EXCEPT ![t] = 0]
    /\ opt_current' = [opt_current EXCEPT ![t] = opt_forward[_header][0]]
    /\ UNCHANGED <<mvcc_vars, ext_vars, opt_list_vars, pool_vars, lock_vars, arg_key, dump_i,
                   _element_count, opt_file, fault>>

\* display_list, line 383-391: one test of while (node != NULL): the node is
\* printed and left, or the next level begins, or the call returns
opt_display_step(t) ==
    /\ ~fault
    /\ opc[t] = "dl_walk"
    /\ LET node == opt_current[t]
           i == level_i[t]
       IN  IF node # nullptr
           THEN \/ node \in freed /\ crash
                \/ \E next \in read_forward(node, i) :
                      /\ opt_current' = [opt_current EXCEPT ![t] = next]
                      /\ UNCHANGED <<opc, arg_key, level_i, current_level, dump_i,
                                     opt_global_mutex, fault>>
           ELSE /\ IF i < current_level[t]
                   THEN /\ level_i' = [level_i EXCEPT ![t] = i + 1]
                        /\ opt_current' =
                               [opt_current EXCEPT ![t] = opt_forward[_header][i + 1]]
                        /\ UNCHANGED <<opc, arg_key, current_level, dump_i,
                                       opt_global_mutex>>
                   ELSE /\ return(t)
                        /\ opt_global_mutex' = NoThread
                /\ UNCHANGED fault
    /\ UNCHANGED <<mvcc_vars, ext_vars, opt_list_vars, pool_vars, _segment_locks, _level_mutex,
                   _element_count, opt_file>>

\* ---------------------------------------------------------------- dump_file
\* a thread calls dump_file(), line 396-400
opt_dump_call(t) ==
    /\ ~fault
    /\ opc[t] = "idle"
    /\ opc' = [opc EXCEPT ![t] = "dp_lock"]
    /\ UNCHANGED <<mvcc_vars, ext_vars, opt_list_vars, pool_vars, lock_vars, arg_key,
                   opt_current, level_i, current_level, dump_i, _element_count,
                   opt_file, fault>>

\* get_all_write_locks stopping after the first mutex
opt_dump_lock_first(t) ==
    /\ ~fault
    /\ opc[t] = "dp_lock"
    /\ _segment_locks[dump_i[t]] = NoThread
    /\ _segment_locks' = [_segment_locks EXCEPT ![dump_i[t]] = t]
    /\ dump_i' = [dump_i EXCEPT ![t] = @ + 1]
    /\ opc' = [opc EXCEPT ![t] = "dp_open"]
    /\ UNCHANGED <<mvcc_vars, ext_vars, opt_list_vars, pool_vars, _level_mutex,
                   opt_global_mutex, arg_key, opt_current, level_i, current_level,
                   _element_count, opt_file, fault>>

\* get_all_write_locks, segment_lock.h line 83-85: one iteration, the mutex of
\* segment i is locked; after the last one the vector is returned
opt_dump_lock(t) ==
    /\ ~fault
    /\ opc[t] = "dp_lock"
    /\ _segment_locks[dump_i[t]] = NoThread
    /\ _segment_locks' = [_segment_locks EXCEPT ![dump_i[t]] = t]
    /\ dump_i' = [dump_i EXCEPT ![t] = @ + 1]
    /\ opc' = [opc EXCEPT ![t] = IF dump_i[t] + 1 = SegmentCount THEN "dp_open"
                                 ELSE "dp_lock"]
    /\ UNCHANGED <<mvcc_vars, ext_vars, opt_list_vars, pool_vars, _level_mutex,
                   opt_global_mutex, arg_key, opt_current, level_i, current_level,
                   _element_count, opt_file, fault>>

\* dump_file, line 402-403: the file is opened, which empties it;
\* node = _header->forward[0]
opt_dump_open(t) ==
    /\ ~fault
    /\ opc[t] = "dp_open"
    /\ opt_file' = <<>>
    /\ opt_current' = [opt_current EXCEPT ![t] = opt_forward[_header][0]]
    /\ opc' = [opc EXCEPT ![t] = "dp_write"]
    /\ UNCHANGED <<mvcc_vars, ext_vars, opt_list_vars, pool_vars, lock_vars, arg_key, level_i,
                   current_level, dump_i, _element_count, fault>>

\* dump_file, line 405-409: one test of while (node != NULL) and the line written
opt_dump_write(t) ==
    /\ ~fault
    /\ opc[t] = "dp_write"
    /\ LET node == opt_current[t]
       IN  IF node # nullptr
           THEN \/ node \in freed /\ crash
                \/ \E k \in read_key(node), v \in read_value(node),
                      next \in read_forward(node, 0) :
                      /\ opt_file' = Append(opt_file, <<k, v>>)
                      /\ opt_current' = [opt_current EXCEPT ![t] = next]
                      /\ UNCHANGED <<opc, fault>>
           ELSE /\ opc' = [opc EXCEPT ![t] = "dp_close"]
                /\ UNCHANGED <<opt_file, opt_current, fault>>
    /\ UNCHANGED <<mvcc_vars, ext_vars, opt_list_vars, pool_vars, lock_vars, arg_key, level_i,
                   current_level, dump_i, _element_count>>

\* dump_file, line 411-413: flush, close, and the locks are released on return
opt_dump_close(t) ==
    /\ ~fault
    /\ opc[t] = "dp_close"
    /\ _segment_locks' = [s \in Segments |-> NoThread]
    /\ return(t)
    /\ UNCHANGED <<mvcc_vars, ext_vars, opt_list_vars, pool_vars, _level_mutex,
                   opt_global_mutex, _element_count, opt_file, fault>>

\* --------------------------------------------------------------------- size
\* SkipListOptimized::size: _element_count is read under _count_mutex; the call
\* changes nothing and returns opt_size
opt_size_call(t) ==
    /\ ~fault
    /\ opc[t] = "idle"
    /\ UNCHANGED vars

\* what size() returns
opt_size == _element_count

\* --------------------------------------------------------------- the threads
\* the steps in which thread t takes a mutex that another thread may hold
opt_acquire(t) ==
    \/ opt_insert_lock(t)
    \/ opt_insert_level(t)
    \/ opt_delete_lock(t)
    \/ opt_delete_level(t)
    \/ opt_search_lock(t)
    \/ opt_search_level(t)
    \/ opt_display_lock(t)
    \/ opt_display_level(t)
    \/ opt_dump_lock(t)

\* the other steps of thread t inside a call
opt_run(t) ==
    \/ \E v \in Values, l \in 1..MaxOptLevel : opt_insert_body(t, v, l)
    \/ opt_insert_count(t)
    \/ opt_delete_body(t)
    \/ opt_delete_count(t)
    \/ opt_search_step(t)
    \/ opt_search_end(t)
    \/ opt_display_step(t)
    \/ opt_dump_open(t)
    \/ opt_dump_write(t)
    \/ opt_dump_close(t)

\* thread t enters a call
opt_call(t) ==
    \/ \E k \in Keys : opt_insert_call(t, k)
    \/ \E k \in Keys : opt_delete_call(t, k)
    \/ \E k \in Keys : opt_search_call(t, k)
    \/ opt_display_call(t)
    \/ opt_dump_call(t)
    \/ opt_size_call(t)

NextOpt == \E t \in OptThreads : opt_call(t) \/ opt_acquire(t) \/ opt_run(t)

\* the threads of SkipListOptimized
SpecOpt == Init /\ [][NextOpt]_vars

\* the same under fair scheduling: a thread inside a call goes on when it can,
\* and a thread that waits for a mutex gets it if the mutex is free again and
\* again
SpecOptFair ==
    /\ SpecOpt
    /\ \A t \in OptThreads : WF_vars(opt_run(t)) /\ SF_vars(opt_acquire(t))

\* ============================================================= NodeMemoryPool
\* the pool used directly: allocate, deallocate, and the holder of a node
\* writing its forward slots, as insert_element does at line 233-236

\* the nodes handed out and not given back
in_use == {n \in 1.._allocated_count : \A i \in 1..Len(_free_list) : _free_list[i] # n}

\* a reinitialize_node that leaves the forward array as it is
reinitialize_node_stale(node, k, v, level) ==
    /\ opt_node_level' = [opt_node_level EXCEPT ![node] = level]
    /\ opt_forward' = opt_forward
    /\ opt_key' = [opt_key EXCEPT ![node] = k]
    /\ opt_value' = [opt_value EXCEPT ![node] = v]

\* NodeMemoryPool::reinitialize_node, memory_pool.h line 144-158: a forward
\* array of level + 1 slots (a new one when the level differs), all set to
\* null by memset, and the key and value set
reinitialize_node(node, k, v, level) ==
    /\ opt_node_level' = [opt_node_level EXCEPT ![node] = level]
    /\ opt_forward' = [opt_forward EXCEPT ![node] = [i \in OptLevels |-> nullptr]]
    /\ opt_key' = [opt_key EXCEPT ![node] = k]
    /\ opt_value' = [opt_value EXCEPT ![node] = v]

\* the node that allocate returns in this state: the back of the free list,
\* or the node constructed next
allocate_node ==
    IF _free_list # <<>> THEN _free_list[Len(_free_list)] ELSE _allocated_count + 1

\* NodeMemoryPool::allocate, memory_pool.h line 59-79, under _pool_mutex
pool_allocate(k, v, level) ==
    /\ IF _free_list # <<>>
       THEN /\ _reused_count < MaxReuse
            /\ _free_list' = SubSeq(_free_list, 1, Len(_free_list) - 1)
            /\ reinitialize_node(allocate_node, k, v, level)
            /\ _reused_count' = _reused_count + 1
            /\ UNCHANGED _allocated_count
       ELSE /\ _allocated_count < MaxPoolNodes
            /\ opt_node_level' = [opt_node_level EXCEPT ![allocate_node] = level]
            /\ opt_forward' =
                   [opt_forward EXCEPT ![allocate_node] = [i \in OptLevels |-> nullptr]]
            /\ opt_key' = [opt_key EXCEPT ![allocate_node] = k]
            /\ opt_value' = [opt_value EXCEPT ![allocate_node] = v]
            /\ _allocated_count' = _allocated_count + 1
            /\ UNCHANGED <<_reused_count, _free_list>>
    /\ UNCHANGED <<mvcc_vars, ext_vars, opt_skip_list_level, freed, lock_vars, local_vars,
                   _element_count, opt_file, fault>>

\* NodeMemoryPool::deallocate, memory_pool.h line 85-95: a null pointer is
\* ignored, a node is pushed on the free list as it is
pool_deallocate(node) ==
    /\ IF node = nullptr
       THEN UNCHANGED _free_list
       ELSE _free_list' = Append(_free_list, node)
    /\ UNCHANGED <<mvcc_vars, ext_vars, opt_list_vars, _allocated_count, _reused_count,
                   lock_vars, local_vars, _element_count, opt_file, fault>>

\* the holder of node n writes n->forward[i] = m
pool_set_forward(n, i, m) ==
    /\ i <= opt_node_level[n]
    /\ opt_forward' = [opt_forward EXCEPT ![n] = [@ EXCEPT ![i] = m]]
    /\ UNCHANGED <<mvcc_vars, ext_vars, opt_skip_list_level, opt_key, opt_value, opt_node_level,
                   freed, pool_vars, lock_vars, local_vars, _element_count, opt_file,
                   fault>>

NextPool ==
    \/ \E k \in Keys, v \in Values, level \in OptLevels : pool_allocate(k, v, level)
    \/ \E node \in in_use \cup {nullptr} : pool_deallocate(node)
    \/ \E n \in in_use, i \in OptLevels, m \in in_use : pool_set_forward(n, i, m)

\* a user of the memory pool alone
SpecPool == Init /\ [][NextPool]_vars

\* --------------------------------- search_element against insert_element
\* the node that holds key k, nullptr when there is none
node_with(k) ==
    IF \E n \in 1..node_count : key[n] = k
    THEN CHOOSE n \in 1..node_count : key[n] = k
    ELSE nullptr

\* node n exists and no insert_element is still splicing it in
fully_linked(n) == n # nullptr /\ ~(mvcc_mutex # NoThread /\ ins_node = n)

\* new_node->forward[i] = update[i]->forward[i]
splice_new(fw, node, pred, i) == [fw EXCEPT ![node][i] = fw[pred][i]]

\* update[i]->forward[i] = new_node
splice_pred(fw, node, pred, i) == [fw EXCEPT ![pred][i] = node]

\* the threads that are inside search_element
searchers == {r \in Txns : pc[r] \in {"walk_a", "walk_b", "walk_c", "bottom",
                                      "check", "searched", "s_crash"}}

\* the locals of insert_element after its return
ins_return ==
    /\ mvcc_mutex' = NoThread
    /\ ins_key' = 0
    /\ ins_value' = 0
    /\ ins_level' = 0
    /\ ins_update' = [i \in Levels |-> nullptr]
    /\ ins_node' = nullptr
    /\ ins_i' = 0

\* insert_element, line 375-404: the is_active test, _global_mutex, the search
\* for the position and, when the key has a node, the new version and the return
ins_call(t, k, v, random_level) ==
    /\ pc[t] = "ready"
    /\ state[t] = "ACTIVE"
    /\ mvcc_mutex = NoThread
    /\ _total_versions < MaxVersions
    /\ LET update == find_update(k)
           current == forward[update[0]][0]
       IN  IF current # nullptr /\ key[current] = k
           THEN /\ insert_existing(t, current, v)
                /\ UNCHANGED <<pc, lf_vars>>
           ELSE /\ mvcc_mutex' = t
                /\ ins_key' = k
                /\ ins_value' = v
                /\ ins_level' = random_level
                /\ ins_update' = update
                /\ pc' = [pc EXCEPT ![t] = "ins_raise"]
                /\ UNCHANGED <<ins_node, ins_i, search_vars, modified_nodes,
                               list_vars, version_head, _total_versions>>
    /\ UNCHANGED <<_next_txn_id, state, _active_transactions, commit_i,
                   _total_commits, _total_aborts, opt_vars, file_vars, mutex_vars>>

\* insert_element, line 409-414: the list level is raised
ins_raise(t) ==
    /\ pc[t] = "ins_raise"
    /\ IF ins_level > _skip_list_level
       THEN /\ ins_update' = [i \in Levels |->
                                 IF i > _skip_list_level /\ i <= ins_level
                                 THEN _header ELSE ins_update[i]]
            /\ _skip_list_level' = ins_level
       ELSE UNCHANGED <<ins_update, _skip_list_level>>
    /\ pc' = [pc EXCEPT ![t] = "ins_create"]
    /\ UNCHANGED <<_next_txn_id, state, modified_nodes, _active_transactions,
                   commit_i, _total_commits, _total_aborts, node_count, key,
                   node_level, forward, version_head, _total_versions>>
    /\ UNCHANGED <<mvcc_mutex, ins_key, ins_value, ins_level, ins_node, ins_i,
                   search_vars, opt_vars, file_vars, mutex_vars>>

\* insert_element, line 416: create_node
ins_create(t) ==
    /\ pc[t] = "ins_create"
    /\ ins_node' = node_count + 1
    /\ node_count' = node_count + 1
    /\ key' = [key EXCEPT ![node_count + 1] = ins_key]
    /\ node_level' = [node_level EXCEPT ![node_count + 1] = ins_level]
    /\ forward' = [forward EXCEPT ![node_count + 1] = [i \in Levels |-> nullptr]]
    /\ pc' = [pc EXCEPT ![t] = "ins_version"]
    /\ UNCHANGED <<_next_txn_id, state, modified_nodes, _active_transactions,
                   commit_i, _total_commits, _total_aborts, _skip_list_level,
                   version_head, _total_versions>>
    /\ UNCHANGED <<mvcc_mutex, ins_key, ins_value, ins_level, ins_update, ins_i,
                   search_vars, opt_vars, file_vars, mutex_vars>>

\* insert_element, line 417-419: the first version of the new node
ins_version(t) ==
    /\ pc[t] = "ins_version"
    /\ version_head' = [version_head EXCEPT ![ins_node] = add_version(@, ins_value, t)]
    /\ modified_nodes' = [modified_nodes EXCEPT ![t] = Append(@, ins_node)]
    /\ _total_versions' = _total_versions + 1
    /\ ins_i' = 0
    /\ pc' = [pc EXCEPT ![t] = "ins_link_a"]
    /\ UNCHANGED <<_next_txn_id, state, _active_transactions, commit_i,
                   _total_commits, _total_aborts, list_vars>>
    /\ UNCHANGED <<mvcc_mutex, ins_key, ins_value, ins_level, ins_update, ins_node,
                   search_vars, opt_vars, file_vars, mutex_vars>>

\* insert_element, line 422: new_node->forward[i] = update[i]->forward[i]
ins_link_a(t) ==
    /\ pc[t] = "ins_link_a"
    /\ forward' = splice_new(forward, ins_node, ins_update[ins_i], ins_i)
    /\ pc' = [pc EXCEPT ![t] = "ins_link_b"]
    /\ UNCHANGED <<_next_txn_id, state, modified_nodes, _active_transactions,
                   commit_i, _total_commits, _total_aborts, _skip_list_level,
                   node_count, key, node_level, version_head, _total_versions>>
    /\ UNCHANGED <<lf_vars, opt_vars, file_vars, mutex_vars>>

\* insert_element, line 423: update[i]->forward[i] = new_node, then the next
\* level or the return, which releases _global_mutex
ins_link_b(t) ==
    /\ pc[t] = "ins_link_b"
    /\ forward' = splice_pred(forward, ins_node, ins_update[ins_i], ins_i)
    /\ IF ins_i < ins_level
       THEN /\ ins_i' = ins_i + 1
            /\ pc' = [pc EXCEPT ![t] = "ins_link_a"]
            /\ UNCHANGED <<mvcc_mutex, ins_key, ins_value, ins_level, ins_update,
                           ins_node>>
       ELSE /\ ins_return
            /\ pc' = [pc EXCEPT ![t] = "ready"]
    /\ UNCHANGED <<_next_txn_id, state, modified_nodes, _active_transactions,
                   commit_i, _total_commits, _total_aborts, _skip_list_level,
                   node_count, key, node_level, version_head, _total_versions>>
    /\ UNCHANGED <<search_vars, opt_vars, file_vars, mutex_vars>>

\* search_element moves on from level s_i: the next level down, or line 448
s_next_level(r) ==
    IF s_i = 0
    THEN pc' = [pc EXCEPT ![r] = "bottom"] /\ UNCHANGED s_i
    ELSE pc' = [pc EXCEPT ![r] = "walk_a"] /\ s_i' = s_i - 1

\* search_element, line 435-443: the is_active test, current = _header and the
\* read of _skip_list_level; one search runs at a time
s_call(r, k) ==
    /\ pc[r] = "ready"
    /\ state[r] = "ACTIVE"
    /\ searchers = {}
    /\ s_key' = k
    /\ s_current' = _header
    /\ s_i' = _skip_list_level
    /\ s_chain0' = IF fully_linked(node_with(k))
                   THEN version_head[node_with(k)] ELSE <<>>
    /\ pc' = [pc EXCEPT ![r] = "walk_a"]
    /\ UNCHANGED <<_next_txn_id, state, modified_nodes, _active_transactions,
                   commit_i, _total_commits, _total_aborts, list_vars,
                   version_head, _total_versions>>
    /\ UNCHANGED <<mvcc_mutex, ins_vars, s_result, opt_vars, file_vars, mutex_vars>>

\* search_element, line 444: the read of current->forward[i] that is tested
\* for null
s_walk_a(r) ==
    /\ pc[r] = "walk_a"
    /\ IF forward[s_current][s_i] # nullptr
       THEN pc' = [pc EXCEPT ![r] = "walk_b"] /\ UNCHANGED s_i
       ELSE s_next_level(r)
    /\ UNCHANGED <<_next_txn_id, state, modified_nodes, _active_transactions,
                   commit_i, _total_commits, _total_aborts, list_vars,
                   version_head, _total_versions>>
    /\ UNCHANGED <<mvcc_mutex, ins_vars, s_key, s_current, s_chain0, s_result,
                   opt_vars, file_vars, mutex_vars>>

\* search_element, line 444: the read of current->forward[i] whose key is
\* compared; a null pointer there ends the process
s_walk_b(r) ==
    /\ pc[r] = "walk_b"
    /\ IF forward[s_current][s_i] = nullptr
       THEN pc' = [pc EXCEPT ![r] = "s_crash"] /\ UNCHANGED s_i
       ELSE IF key[forward[s_current][s_i]] < s_key
       THEN pc' = [pc EXCEPT ![r] = "walk_c"] /\ UNCHANGED s_i
       ELSE s_next_level(r)
    /\ UNCHANGED <<_next_txn_id, state, modified_nodes, _active_transactions,
                   commit_i, _total_commits, _total_aborts, list_vars,
                   version_head, _total_versions>>
    /\ UNCHANGED <<mvcc_mutex, ins_vars, s_key, s_current, s_chain0, s_result,
                   opt_vars, file_vars, mutex_vars>>

\* search_element, line 445: current = current->forward[i]
s_walk_c(r) ==
    /\ pc[r] = "walk_c"
    /\ s_current' = forward[s_current][s_i]
    /\ pc' = [pc EXCEPT ![r] = IF forward[s_current][s_i] = nullptr
                               THEN "s_crash" ELSE "walk_a"]
    /\ UNCHANGED <<_next_txn_id, state, modified_nodes, _active_transactions,
                   commit_i, _total_commits, _total_aborts, list_vars,
                   version_head, _total_versions>>
    /\ UNCHANGED <<mvcc_mutex, ins_vars, s_key, s_i, s_chain0, s_result,
                   opt_vars, file_vars, mutex_vars>>

\* search_element, line 448: current = current->forward[0]
s_bottom(r) ==
    /\ pc[r] = "bottom"
    /\ s_current' = forward[s_current][0]
    /\ pc' = [pc EXCEPT ![r] = "check"]
    /\ UNCHANGED <<_next_txn_id, state, modified_nodes, _active_transactions,
                   commit_i, _total_commits, _total_aborts, list_vars,
                   version_head, _total_versions>>
    /\ UNCHANGED <<mvcc_mutex, ins_vars, s_key, s_i, s_chain0, s_result,
                   opt_vars, file_vars, mutex_vars>>

\* search_element, line 450-466: the key test and get_visible_version under
\* the node's version_mutex
s_check(r) ==
    /\ pc[r] = "check"
    /\ LET pos == IF s_current # nullptr /\ key[s_current] = s_key
                  THEN get_visible_version(version_head[s_current], r)
                  ELSE 0
       IN  s_result' = IF pos # 0
                       THEN <<TRUE, version_head[s_current][pos].value>>
                       ELSE <<FALSE, 0>>
    /\ pc' = [pc EXCEPT ![r] = "searched"]
    /\ UNCHANGED <<_next_txn_id, state, modified_nodes, _active_transactions,
                   commit_i, _total_commits, _total_aborts, list_vars,
                   version_head, _total_versions>>
    /\ UNCHANGED <<mvcc_mutex, ins_vars, s_key, s_current, s_i, s_chain0,
                   opt_vars, file_vars, mutex_vars>>

\* search_element has returned and its caller goes on
s_return(r) ==
    /\ pc[r] = "searched"
    /\ s_key' = 0
    /\ s_current' = nullptr
    /\ s_i' = 0
    /\ s_chain0' = <<>>
    /\ s_result' = <<FALSE, 0>>
    /\ pc' = [pc EXCEPT ![r] = "ready"]
    /\ UNCHANGED <<_next_txn_id, state, modified_nodes, _active_transactions,
                   commit_i, _total_commits, _total_aborts, list_vars,
                   version_head, _total_versions>>
    /\ UNCHANGED <<mvcc_mutex, ins_vars, opt_vars, file_vars, mutex_vars>>

NextLockFree ==
    \/ begin_fetch
    \/ \E t \in Txns : begin_register(t)
    \/ \E t \in Txns : commit_transaction(t)
    \/ \E t \in Txns : commit_node(t)
    \/ \E t \in Txns : commit_finish(t)
    \/ \E t \in Txns, k \in Keys, v \in Values, l \in 1.._max_level :
           ins_call(t, k, v, l)
    \/ \E t \in Txns : ins_raise(t)
    \/ \E t \in Txns : ins_create(t)
    \/ \E t \in Txns : ins_version(t)
    \/ \E t \in Txns : ins_link_a(t)
    \/ \E t \in Txns : ins_link_b(t)
    \/ \E r \in Txns, k \in Keys : s_call(r, k)
    \/ \E r \in Txns : s_walk_a(r)
    \/ \E r \in Txns : s_walk_b(r)
    \/ \E r \in Txns : s_walk_c(r)
    \/ \E r \in Txns : s_bottom(r)
    \/ \E r \in Txns : s_check(r)
    \/ \E r \in Txns : s_return(r)

\* transactions whose insert_element calls run statement by statement under
\* _global_mutex while a search_element runs read by read without it
SpecLockFree == Init /\ [][NextLockFree]_vars

\* the transactions' calls with insert_element run statement by statement:
\* what a thread that reads without a lock can find between two statements.
\* delete_element and gc wait for _global_mutex.
NextSteps ==
    \/ begin_fetch
    \/ \E t \in Txns : begin_register(t)
    \/ \E t \in Txns : commit_transaction(t)
    \/ \E t \in Txns : commit_node(t)
    \/ \E t \in Txns : commit_finish(t)
    \/ \E t \in Txns : abort_transaction(t)
    \/ \E t \in Txns, k \in Keys, v \in Values, l \in 1.._max_level :
           ins_call(t, k, v, l)
    \/ \E t \in Txns : ins_raise(t)
    \/ \E t \in Txns : ins_create(t)
    \/ \E t \in Txns : ins_version(t)
    \/ \E t \in Txns : ins_link_a(t)
    \/ \E t \in Txns : ins_link_b(t)
    \/ \E t \in Txns, k \in Keys : mvcc_mutex = NoThread /\ delete_element(t, k)
    \/ mvcc_mutex = NoThread /\ gc

SpecSteps == Init /\ [][NextSteps]_vars

\* ------------------------------------------------ the mutexes of SkipListMVCC
\* the mutexes
global_mutex_id == <<"_global_mutex", 0>>
txn_mutex_id == <<"_txn_mutex", 0>>
version_mutex_id(n) == <<"version_mutex", n>>

\* the thread that holds mutex m
holder(m) ==
    IF m = global_mutex_id THEN mvcc_mutex
    ELSE IF m = txn_mutex_id THEN _txn_mutex
    ELSE version_mutex[m[2]]

\* std::lock_guard<std::mutex> lock(m) around the calls inner
guarded(m, inner) ==
    <<[op |-> "lock", m |-> m]>> \o inner \o <<[op |-> "unlock", m |-> m]>>

\* a version chain operation of node n: version_mutex is held from its first
\* statement to its return and nothing is locked meanwhile
version_op(n) == guarded(version_mutex_id(n), <<>>)

RECURSIVE version_ops(_)
\* one version chain operation for each node of the sequence, in turn
version_ops(nodes) ==
    IF nodes = <<>> THEN <<>> ELSE version_op(Head(nodes)) \o version_ops(Tail(nodes))

\* the nodes along forward[0], taken to be one per key
all_nodes == [n \in 1..MaxKey |-> n]

\* the sequences of nodes that a transaction can have in modified_nodes
ModifiedNodes == UNION {[1..n -> Nodes] : n \in 0..MaxVersions}

\* thread th makes a call whose lock and unlock calls are calls
call(th, calls) ==
    /\ script[th] = <<>>
    /\ script' = [script EXCEPT ![th] = calls]
    /\ UNCHANGED <<mvcc_vars, opt_vars, file_vars, mvcc_mutex, ins_vars, search_vars,
                   _txn_mutex, version_mutex>>

\* a begin_transaction that takes _global_mutex while it holds _txn_mutex
call_begin_transaction_global(th) ==
    call(th, guarded(txn_mutex_id, guarded(global_mutex_id, <<>>)))

\* begin_transaction: the registration under _txn_mutex
call_begin_transaction(th) == call(th, guarded(txn_mutex_id, <<>>))

\* commit_transaction: commit_version for each of modified_nodes, then the
\* erase under _txn_mutex
call_commit_transaction(th, nodes) ==
    call(th, version_ops(nodes) \o guarded(txn_mutex_id, <<>>))

\* abort_transaction: the erase under _txn_mutex
call_abort_transaction(th) == call(th, guarded(txn_mutex_id, <<>>))

\* insert_element: add_version of the node, old or new, under _global_mutex
call_insert_element(th, n) == call(th, guarded(global_mutex_id, version_op(n)))

\* delete_element: mark_deleted under _global_mutex when the key has a node
call_delete_element(th, n) ==
    call(th, guarded(global_mutex_id, IF n = nullptr THEN <<>> ELSE version_op(n)))

\* search_element: get_visible_version of the node of the key
call_search_element(th, n) == call(th, version_op(n))

\* range_query: get_visible_version of each node from start_key to end_key
call_range_query(th, start_key, end_key) ==
    call(th, version_ops(SubSeq(all_nodes, start_key, end_key)))

\* gc: under _global_mutex, get_min_active_txn_id under _txn_mutex and then
\* gc_versions of each node
call_gc(th) ==
    call(th, guarded(global_mutex_id,
                     guarded(txn_mutex_id, <<>>) \o version_ops(all_nodes)))

\* size: the count under _global_mutex
call_size(th) == call(th, guarded(global_mutex_id, <<>>))

\* dump_file: under _global_mutex, get_visible_version of each node
call_dump_file(th) == call(th, guarded(global_mutex_id, version_ops(all_nodes)))

\* mutex m with holder h instead
set_holder(m, h) ==
    /\ mvcc_mutex' = IF m = global_mutex_id THEN h ELSE mvcc_mutex
    /\ _txn_mutex' = IF m = txn_mutex_id THEN h ELSE _txn_mutex
    /\ version_mutex' = IF m[1] = "version_mutex"
                        THEN [version_mutex EXCEPT ![m[2]] = h]
                        ELSE version_mutex

\* std::mutex::lock: the thread's next call is a lock of a mutex that is free
mutex_lock(th) ==
    /\ script[th] # <<>>
    /\ Head(script[th]).op = "lock"
    /\ holder(Head(script[th]).m) = NoThread
    /\ set_holder(Head(script[th]).m, th)
    /\ script' = [script EXCEPT ![th] = Tail(@)]
    /\ UNCHANGED <<mvcc_vars, opt_vars, file_vars, ins_vars, search_vars>>

\* std::mutex::unlock at the end of the lock_guard's scope
mutex_unlock(th) ==
    /\ script[th] # <<>>
    /\ Head(script[th]).op = "unlock"
    /\ set_holder(Head(script[th]).m, NoThread)
    /\ script' = [script EXCEPT ![th] = Tail(@)]
    /\ UNCHANGED <<mvcc_vars, opt_vars, file_vars, ins_vars, search_vars>>

NextMutex ==
    \/ \E th \in Callers : call_begin_transaction(th)
    \/ \E th \in Callers, nodes \in ModifiedNodes : call_commit_transaction(th, nodes)
    \/ \E th \in Callers : call_abort_transaction(th)
    \/ \E th \in Callers, n \in Nodes : call_insert_element(th, n)
    \/ \E th \in Callers, n \in Nodes \cup {nullptr} : call_delete_element(th, n)
    \/ \E th \in Callers, n \in Nodes : call_search_element(th, n)
    \/ \E th \in Callers, start_key \in Keys, end_key \in Keys :
           start_key <= end_key /\ call_range_query(th, start_key, end_key)
    \/ \E th \in Callers : call_gc(th)
    \/ \E th \in Callers : call_size(th)
    \/ \E th \in Callers : call_dump_file(th)
    \/ \E th \in Callers : mutex_lock(th)
    \/ \E th \in Callers : mutex_unlock(th)

\* threads that call SkipListMVCC, seen as the mutexes they lock and unlock
SpecMutex == Init /\ [][NextMutex]_vars

\* a thread that is about to unlock goes on, and a thread that waits for a mutex
\* that becomes free again and again gets it
SpecMutexFair ==
    /\ SpecMutex
    /\ \A th \in Callers : WF_vars(mutex_unlock(th))
    /\ \A th \in Callers : SF_vars(mutex_lock(th))

\* ------------------------------------------------- dump_file and load_file
\* the characters that string values are made of
ValueChars == {"a", ":", "\n"}
\* the string values, as sequences of characters
StrValues == UNION {[1..n -> ValueChars] : n \in 0..MaxValLen}
\* the decimal digits that operator<< writes and stoi reads
Digits == <<"0", "1", "2", "3", "4", "5", "6", "7", "8", "9">>

is_digit(c) == \E d \in 1..10 : Digits[d] = c
digit_of(c) == (CHOOSE d \in 1..10 : Digits[d] = c) - 1

\* _file_writer << node->get_key(), for an int key below ten
print_int(k) == <<Digits[k + 1]>>

RECURSIVE find_from(_, _, _)
\* the first position of c in str at or after i, 0 for npos
find_from(str, c, i) ==
    IF i > Len(str) THEN 0
    ELSE IF str[i] = c THEN i
    ELSE find_from(str, c, i + 1)

RECURSIVE rfind_from(_, _, _)
rfind_from(str, c, i) ==
    IF i < 1 THEN 0
    ELSE IF str[i] = c THEN i
    ELSE rfind_from(str, c, i - 1)

\* the last position of c in str, 0 for npos
rfind(str, c) == rfind_from(str, c, Len(str))

\* std::string::find
find(str, c) == find_from(str, c, 1)

RECURSIVE stoi_digits(_, _, _)
stoi_digits(str, i, acc) ==
    IF i > Len(str) \/ ~is_digit(str[i]) THEN acc
    ELSE stoi_digits(str, i + 1, acc * 10 + digit_of(str[i]))

\* std::stoi: the number that the leading digits spell, -1 for the
\* std::invalid_argument that it throws when there is none
stoi(str) ==
    IF str = <<>> \/ ~is_digit(str[1]) THEN -1 ELSE stoi_digits(str, 1, 0)

\* the keys of a set of (key, value) pairs
keys_of(pairs) == {p[1] : p \in pairs}
\* the value that a set of pairs holds for key k
value_in(pairs, k) == (CHOOSE p \in pairs : p[1] = k)[2]

\* _file_writer << node->get_key() << ":" << value << "\n"
store_line(k, v) == print_int(k) \o <<":">> \o v \o <<"\n">>

RECURSIVE dump_text(_, _)
\* the walk of dump_file over the bottom level, from key k on
dump_text(pairs, k) ==
    IF k > MaxKey THEN <<>>
    ELSE (IF k \in keys_of(pairs) THEN store_line(k, value_in(pairs, k)) ELSE <<>>)
         \o dump_text(pairs, k + 1)

\* getline: the position of the newline that ends the line at pos, or of the
\* end of the file
line_end(text, pos) ==
    LET j == find_from(text, "\n", pos) IN IF j = 0 THEN Len(text) + 1 ELSE j
\* getline: the line that starts at pos
getline(text, pos) == SubSeq(text, pos, line_end(text, pos) - 1)

\* SkipListOptimized::is_valid_string
is_valid_string(str) == str # <<>> /\ find(str, ":") # 0

\* the instance that dumps gets a pair by insert_element
file_put(k, v) ==
    /\ f_pc = "source"
    /\ k \notin keys_of(f_src)
    /\ f_src' = f_src \cup {<<k, v>>}
    /\ UNCHANGED <<mvcc_vars, opt_vars, lf_vars, mutex_vars, f_pc, f_text, f_pos, f_key, f_value,
                   f_loaded, f_chains>>

\* SkipListOptimized::dump_file, then load_file of a fresh instance up to its loop
file_opt_dump ==
    /\ f_pc = "source"
    /\ f_text' = dump_text(f_src, 1)
    /\ f_pos' = 1
    /\ f_key' = <<>>
    /\ f_value' = <<>>
    /\ f_pc' = "opt_load"
    /\ UNCHANGED <<mvcc_vars, opt_vars, lf_vars, mutex_vars, f_src, f_loaded, f_chains>>

\* SkipListOptimized::load_file: one turn of while (getline(_file_reader, line))
file_opt_line ==
    /\ f_pc = "opt_load"
    /\ f_pos <= Len(f_text)
    /\ LET line == getline(f_text, f_pos)
           pos == find(line, ":")
           \* get_key_value_from_string leaves *key and *value as they are
           \* when the line is not valid
           k == IF is_valid_string(line) THEN SubSeq(line, 1, pos - 1) ELSE f_key
           v == IF is_valid_string(line)
                THEN SubSeq(line, pos + 1, Len(line)) ELSE f_value
       IN  /\ f_pos' = line_end(f_text, f_pos) + 1
           /\ f_key' = k
           /\ f_value' = v
           /\ IF k = <<>> \/ v = <<>>
              THEN UNCHANGED <<f_pc, f_loaded>>
              ELSE IF stoi(k) = -1
              THEN f_pc' = "opt_thrown" /\ UNCHANGED f_loaded
              ELSE /\ f_loaded' = IF stoi(k) \in keys_of(f_loaded)
                                  THEN f_loaded
                                  ELSE f_loaded \cup {<<stoi(k), v>>}
                   /\ UNCHANGED f_pc
    /\ UNCHANGED <<mvcc_vars, opt_vars, lf_vars, mutex_vars, f_src, f_text, f_chains>>

\* SkipListOptimized::load_file: getline fails at the end of the file
file_opt_eof ==
    /\ f_pc = "opt_load"
    /\ f_pos > Len(f_text)
    /\ f_pc' = "opt_done"
    /\ UNCHANGED <<mvcc_vars, opt_vars, lf_vars, mutex_vars, f_src, f_text, f_pos, f_key, f_value,
                   f_loaded, f_chains>>

\* the id that begin_transaction gives load_file on a fresh instance
load_txn_id == 1

\* SkipListMVCC::dump_file, f_src being what its reader sees, then load_file
\* of a fresh instance up to its loop
file_mvcc_dump ==
    /\ f_pc = "source"
    /\ f_text' = dump_text(f_src, 1)
    /\ f_pos' = 1
    /\ f_pc' = "mvcc_load"
    /\ UNCHANGED <<mvcc_vars, opt_vars, lf_vars, mutex_vars, f_src, f_key, f_value, f_loaded, f_chains>>

\* SkipListMVCC::load_file: one turn of while (getline(_file_reader, line))
file_mvcc_line ==
    /\ f_pc = "mvcc_load"
    /\ f_pos <= Len(f_text)
    /\ LET line == getline(f_text, f_pos)
           pos == find(line, ":")
           k == stoi(SubSeq(line, 1, pos - 1))
           v == SubSeq(line, pos + 1, Len(line))
       IN  /\ f_pos' = line_end(f_text, f_pos) + 1
           /\ IF pos = 0
              THEN UNCHANGED <<f_pc, f_chains>>
              ELSE IF k = -1
              THEN f_pc' = "mvcc_thrown" /\ UNCHANGED f_chains
              ELSE /\ f_chains' = [f_chains EXCEPT
                                      ![k] = add_version(@, v, load_txn_id)]
                   /\ UNCHANGED f_pc
    /\ UNCHANGED <<mvcc_vars, opt_vars, lf_vars, mutex_vars, f_src, f_text, f_key, f_value, f_loaded>>

\* SkipListMVCC::load_file: getline fails at the end of the file and
\* commit_transaction(txn) commits what was loaded
file_mvcc_eof ==
    /\ f_pc = "mvcc_load"
    /\ f_pos > Len(f_text)
    /\ f_chains' = [k \in Keys |-> commit_version(f_chains[k], load_txn_id)]
    /\ f_pc' = "mvcc_done"
    /\ UNCHANGED <<mvcc_vars, opt_vars, lf_vars, mutex_vars, f_src, f_text, f_pos, f_key, f_value,
                   f_loaded>>

NextFile ==
    \/ \E k \in Keys, v \in StrValues : file_put(k, v)
    \/ file_opt_dump
    \/ file_opt_line
    \/ file_opt_eof
    \/ file_mvcc_dump
    \/ file_mvcc_line
    \/ file_mvcc_eof

\* a dump_file of one instance and a load_file of a fresh one, of either class
SpecFile == Init /\ [][NextFile]_vars

\* a program that works on one of the two lists: the threads of SkipListMVCC
\* while the SkipListOptimized is as constructed, or the other way round
NextBoth ==
    \/ InitOpt /\ Next
    \/ InitMVCC /\ NextOpt

SpecBoth == Init /\ [][NextBoth]_vars

\* ------------------------------------------------------------------ properties
\* a transaction whose begin_transaction has returned and that is active: it
\* may call search_element
Reader(t) == pc[t] = "ready" /\ state[t] = "ACTIVE"

\* commit_transaction(t) has passed its is_active test
commit_called(t) == pc[t] = "commit" \/ state[t] = "COMMITTED"

\* the key has a node in the list
has_node(k) == find_node(k) # nullptr /\ key[find_node(k)] = k

\* the version chain of the key's node
chain_of(k) == version_head[find_node(k)]

\* what a caller of search_element sees: the bool and the value
outcome(res) == <<res.found, res.value>>

\* C1: a search by an active transaction never returns a version written by
\* another transaction unless that transaction called commit_transaction and
\* the version was marked committed
C1_NoDirtyReadOfInserts ==
    \A r \in Txns, k \in Keys :
        Reader(r) =>
            LET res == search_element_active(r, k)
            IN  res.found =>
                    LET ver == version_head[res.node][res.pos]
                    IN  ver.create_ts # r =>
                            ver.is_committed /\ commit_called(ver.create_ts)

\* a reader is given the committed version below the uncommitted head that an
\* older active transaction wrote with another value
C1_Witness ==
    \E r \in Txns, k \in Keys :
        /\ Reader(r)
        /\ has_node(k)
        /\ Len(chain_of(k)) = 2
        /\ chain_of(k)[1].create_ts < r
        /\ state[chain_of(k)[1].create_ts] = "ACTIVE"
        /\ ~chain_of(k)[1].is_committed
        /\ search_element_active(r, k).pos = 2
        /\ search_element_active(r, k).value # chain_of(k)[1].value

\* the newest version of k is committed, its writer's commit has returned,
\* and it is not deleted: every transaction with a later id, active now or
\* begun later, reads that version, whatever older versions lie below it
newest_committed_read ==
    \A k \in Keys :
        has_node(k) =>
            LET h == chain_of(k)[1]
            IN  (h.is_committed /\ state[h.create_ts] = "COMMITTED"
                    /\ h.delete_ts = UINT64_MAX) =>
                    \A r \in 1..(MaxTxn + 1) :
                        (r > h.create_ts /\ (r >= _next_txn_id \/ Reader(r))) =>
                            LET res == search_element_active(r, k)
                            IN  res.found /\ res.pos = 1 /\ res.value = h.value

\* C2: the version an insert_element of an active transaction writes becomes
\* the newest version of its key, above every earlier one, and once the newest
\* version of a key is committed every transaction with a later id reads it
C2_NewestCommittedWins ==
    /\ []newest_committed_read
    /\ [][\A t \in Txns, k \in Keys, v \in Values, l \in 1.._max_level :
             (state[t] = "ACTIVE" /\ insert_element(t, k, v, l)) =>
                 (has_node(k)' /\ chain_of(k)'[1] = Version(v, t))]_vars

\* two committed versions with different values, written by two transactions,
\* and a later reader that gets the newer one
C2_Witness ==
    \E r \in Txns, k \in Keys :
        /\ Reader(r)
        /\ has_node(k)
        /\ Len(chain_of(k)) = 2
        /\ \A i \in 1..2 : /\ chain_of(k)[i].is_committed
                           /\ state[chain_of(k)[i].create_ts] = "COMMITTED"
                           /\ chain_of(k)[i].create_ts < r
                           /\ chain_of(k)[i].delete_ts = UINT64_MAX
        /\ chain_of(k)[1].create_ts # chain_of(k)[2].create_ts
        /\ chain_of(k)[1].value # chain_of(k)[2].value
        /\ search_element_active(r, k).value = chain_of(k)[1].value

\* C3: once T has committed and its version is the newest version of k, every
\* other active transaction reads its value, whether it began before or after T
C3_CommittedSeenByEveryReader ==
    \A k \in Keys :
        has_node(k) =>
            LET h == chain_of(k)[1]
            IN  (h.is_committed /\ state[h.create_ts] = "COMMITTED"
                    /\ h.delete_ts = UINT64_MAX) =>
                    \A r \in Txns :
                        (Reader(r) /\ r # h.create_ts) =>
                            LET res == search_element_active(r, k)
                            IN  res.found /\ res.value = h.value

\* the newest version of k was written by t
own_head(t, k) == has_node(k) /\ chain_of(k)[1].create_ts = t

\* C4: as long as the newest version of k is the one t wrote and t does not
\* delete k itself, no step makes t stop reading its own write
C4_ReadsOwnWrite ==
    [][\A t \in Txns, k \in Keys :
          (/\ Reader(t) /\ own_head(t, k)
           /\ search_element_active(t, k).pos = 1
           /\ ~delete_element(t, k)
           /\ Reader(t)' /\ own_head(t, k)')
          => search_element_active(t, k)'.pos = 1]_vars

\* the version chains without the versions of aborted transactions
without_aborted ==
    [n \in Nodes |->
        SelectSeq(version_head[n], LAMBDA ver : state[ver.create_ts] # "ABORTED")]

\* the writers of the versions in a sequence of (node, version) pairs
writers(pairs) == {version_head[pairs[i][1]][pairs[i][2]].create_ts : i \in 1..Len(pairs)}

\* C5: search_element, range_query and dump_file never return a version of an
\* aborted transaction, and return what they would return had the aborted
\* versions never been added
C5_AbortIsolation ==
    /\ \A r \in Txns, k \in Keys :
           Reader(r) =>
               LET res == search_element_active(r, k)
               IN  /\ res.found =>
                          state[version_head[res.node][res.pos].create_ts] # "ABORTED"
                   /\ outcome(res) = outcome(search_in(without_aborted, r, k))
    /\ \A r \in Txns, lo \in Keys, hi \in Keys :
           Reader(r) =>
               /\ \A w \in writers(range_versions(version_head, r, lo, hi)) :
                      state[w] # "ABORTED"
               /\ range_query_in(version_head, r, lo, hi)
                      = range_query_in(without_aborted, r, lo, hi)
    /\ \A w \in writers(dump_versions(version_head)) : state[w] # "ABORTED"
    /\ dump_file_in(version_head) = dump_file_in(without_aborted)

\* the head of k was written with another value by a transaction that aborted,
\* and a later reader, a range query and the dump still get the committed value
C5_Witness ==
    \E r \in Txns, k \in Keys :
        /\ Reader(r)
        /\ has_node(k)
        /\ Len(chain_of(k)) = 2
        /\ state[chain_of(k)[1].create_ts] = "ABORTED"
        /\ chain_of(k)[1].create_ts < r
        /\ chain_of(k)[2].is_committed
        /\ chain_of(k)[1].value # chain_of(k)[2].value
        /\ search_element_active(r, k).pos = 2
        /\ range_query_in(version_head, r, k, k) = << <<k, chain_of(k)[2].value>> >>
        /\ <<k, chain_of(k)[2].value>> \in
               {dump_file_in(version_head)[i] : i \in 1..Len(dump_file_in(version_head))}

\* C6: after a committed delete of k with no later insert, every transaction
\* with a later id finds k absent, however many committed versions the chain holds
C6_CommittedDeleteMakesAbsent ==
    \A k \in Keys :
        has_node(k) =>
            LET c == chain_of(k)
            IN  (/\ c[1].delete_ts # UINT64_MAX
                 /\ state[c[1].delete_ts] = "COMMITTED"
                 /\ \A i \in 1..Len(c) : c[i].is_committed) =>
                    \A r \in Txns :
                        (Reader(r) /\ r > c[1].delete_ts) =>
                            ~search_element_active(r, k).found

\* C7: a delete_element by an active transaction changes what no other active
\* transaction reads
C7_NoDirtyReadOfDeletes ==
    [][\A t \in Txns, k \in Keys :
          (state[t] = "ACTIVE" /\ delete_element(t, k)) =>
              \A r \in Txns \ {t} :
                  Reader(r) =>
                      outcome(search_element_active(r, k)')
                          = outcome(search_element_active(r, k))]_vars

\* C8: when the committed newest version of k carries the delete mark of a
\* transaction that aborted, the other transactions read it as if the mark
\* were not there
C8_AbortUndoesDelete ==
    \A k \in Keys :
        has_node(k) =>
            LET h == chain_of(k)[1]
            IN  (/\ h.is_committed
                 /\ h.delete_ts # UINT64_MAX
                 /\ state[h.delete_ts] = "ABORTED") =>
                    \A r \in Txns :
                        (Reader(r) /\ is_visible([h EXCEPT !.delete_ts = UINT64_MAX], r)) =>
                            LET res == search_element_active(r, k)
                            IN  res.found /\ res.value = h.value

\* C9: with no transaction active, gc() leaves a chain of n >= 2 committed
\* versions, written by n transactions one after the other, with its newest
\* version only
C9_GcReclaimsSuperseded ==
    \A n \in 1..node_count :
        LET c == version_head[n]
        IN  (/\ \A t \in Txns : state[t] # "ACTIVE"
             /\ _active_transactions = {}
             /\ Len(c) >= 2
             /\ \A i \in 1..Len(c) : c[i].is_committed
             /\ \A i \in 1..(Len(c) - 1) : c[i].create_ts > c[i + 1].create_ts) =>
                Len(gc_result[n]) = 1

\* C10: gc() run in any state changes what no transaction reads that is active
\* (its begin_transaction may still be running) or that begins later
C10_GcInvisibleToReaders ==
    \A t \in 1..(MaxTxn + 1), k \in Keys :
        (t >= _next_txn_id \/ state[t] = "ACTIVE") =>
            outcome(search_in(gc_result, t, k)) = outcome(search_in(version_head, t, k))

\* a transaction that has committed or aborted, its thread free to call again
Finished(t) == pc[t] = "ready" /\ state[t] \in {"COMMITTED", "ABORTED"}

\* C11: a transaction's state only moves from ACTIVE to COMMITTED or ABORTED and
\* stays there; commit_transaction and abort_transaction on a transaction that
\* is not active change nothing (commit returns false); each counter counts
\* every transaction once
C11_TransactionStateMachine ==
    /\ [](/\ _total_commits = Cardinality({t \in Txns : state[t] = "COMMITTED"})
          /\ _total_aborts = Cardinality({t \in Txns : state[t] = "ABORTED"})
          /\ \A t \in Txns : Finished(t) => ~commit_transaction_result(t))
    /\ [][\A t \in Txns :
             /\ state[t] \in {"COMMITTED", "ABORTED"} => state'[t] = state[t]
             /\ state[t] = "ACTIVE" =>
                    state'[t] \in {"ACTIVE", "COMMITTED", "ABORTED"}
             /\ (Finished(t) /\ (commit_transaction(t) \/ abort_transaction(t))) =>
                    UNCHANGED vars
             /\ _total_commits' - _total_commits
                    = Cardinality({u \in Txns : state[u] = "ACTIVE"
                                                    /\ state'[u] = "COMMITTED"})
             /\ _total_aborts' - _total_aborts
                    = Cardinality({u \in Txns : state[u] = "ACTIVE"
                                                    /\ state'[u] = "ABORTED"})]_vars

\* a committed and an aborted transaction, both free to be committed or aborted
\* again, each counted once
C11_Witness ==
    \E t \in Txns, u \in Txns :
        /\ Finished(t) /\ state[t] = "COMMITTED" /\ modified_nodes[t] # <<>>
        /\ Finished(u) /\ state[u] = "ABORTED" /\ modified_nodes[u] # <<>>
        /\ _total_commits = 1
        /\ _total_aborts = 1

\* C12: on a committed or aborted transaction insert_element returns -1,
\* search_element false, range_query the empty sequence, and insert_element and
\* delete_element add no version, set no delete_ts, link no node and leave
\* _skip_list_level and modified_nodes as they are
C12_InactiveTransactionNoEffect ==
    /\ [](\A t \in Txns : Finished(t) =>
             /\ \A k \in Keys : /\ insert_element_result(t, k) = -1
                                /\ ~search_element_result(t, k).found
             /\ \A lo \in Keys, hi \in Keys : range_query(t, lo, hi) = <<>>)
    /\ [][\A t \in Txns, k \in Keys :
             (Finished(t) /\ (delete_element(t, k)
                                \/ \E v \in Values, l \in 1.._max_level :
                                       insert_element(t, k, v, l))) =>
                 UNCHANGED <<version_head, list_vars, modified_nodes,
                             _total_versions>>]_vars

\* a committed transaction whose own write is in the list, and a key without
\* a node that an insert would have to link
C12_Witness ==
    \E t \in Txns, k \in Keys, j \in Keys :
        /\ Finished(t)
        /\ has_node(k) /\ chain_of(k)[1].create_ts = t
        /\ chain_of(k)[1].delete_ts = UINT64_MAX
        /\ ~has_node(j)
        /\ _total_versions < MaxVersions

RECURSIVE ascending(_)
\* the members of a set of numbers in ascending order
ascending(S) ==
    IF S = {} THEN <<>>
    ELSE LET m == CHOOSE x \in S : \A y \in S : x <= y
         IN  <<m>> \o ascending(S \ {m})

\* the pairs of the keys in lo..hi that have a version visible to r, with the
\* value of the first visible version, in ascending key order
visible_pairs(r, lo, hi) ==
    LET ks == ascending({k \in lo..hi : search_element_active(r, k).found})
    IN  [i \in 1..Len(ks) |-> <<ks[i], search_element_active(r, ks[i]).value>>]

\* C18: range_query(txn, lo, hi) of an active transaction returns exactly the
\* visible pairs of the keys in lo..hi, both bounds included, in ascending key
\* order without duplicates; nothing when lo > hi, at most one pair when lo = hi
C18_RangeQuery ==
    \A r \in Txns, lo \in Keys, hi \in Keys :
        Reader(r) =>
            /\ range_query(r, lo, hi) = visible_pairs(r, lo, hi)
            /\ lo > hi => range_query(r, lo, hi) = <<>>
            /\ lo = hi => Len(range_query(r, lo, hi)) <= 1

\* a reader for whom the query from the second key leaves the visible first
\* key out, and the query over both keys returns both bounds
C18_Witness ==
    \E r \in Txns :
        /\ Reader(r)
        /\ MaxKey >= 2
        /\ Len(range_query(r, 1, 2)) = 2
        /\ Len(range_query(r, 2, 2)) = 1
        /\ range_query(r, 2, 1) = <<>>

\* the mutex holder that thread t waits for, NoThread if it waits for none
waits_for(t) ==
    IF opc[t] \in {"ins_lock", "del_lock", "sr_lock"}
    THEN _segment_locks[get_segment_index(arg_key[t])]
    ELSE IF opc[t] \in {"ins_level", "del_level", "sr_level", "dl_level"}
    THEN _level_mutex
    ELSE IF opc[t] = "dl_lock" THEN opt_global_mutex
    ELSE IF opc[t] = "dp_lock" THEN _segment_locks[dump_i[t]]
    ELSE NoThread

\* no set of threads in which every thread waits for a mutex that a thread of
\* the set holds
no_cyclic_wait ==
    \A S \in SUBSET OptThreads :
        S # {} => \E t \in S : waits_for(t) \notin S

\* C19: no set of threads wait on each other's locks, and under fair
\* scheduling every call of insert_element, delete_element, search_element,
\* dump_file, size and display_list returns
C19_DeadlockFree ==
    /\ []no_cyclic_wait
    /\ \A t \in OptThreads : (opc[t] # "idle") ~> (opc[t] = "idle")

RECURSIVE opt_chain(_, _)
\* the nodes met by walking forward[i] from node n, as a sequence
opt_chain(n, i) ==
    IF n = nullptr THEN <<>> ELSE <<n>> \o opt_chain(opt_forward[n][i], i)

\* the nodes reachable from the header at level i
opt_level(i) == opt_chain(opt_forward[_header][i], i)

\* threads inside insert_element or delete_element
writing ==
    {t \in OptThreads : opc[t] \in {"ins_lock", "ins_level", "ins_body", "ins_count",
                                      "del_lock", "del_level", "del_body", "del_count"}}

\* C14: whenever no insert_element or delete_element is in progress, size()
\* equals the number of nodes reachable from the header at level 0
C14_SizeInvariant ==
    writing = {} => opt_size = Len(opt_level(0))

\* two inserts and a delete have completed and no writer is inside a call
C14_Witness ==
    /\ writing = {}
    /\ _allocated_count = 2
    /\ freed # {}
    /\ opt_size = 1
    /\ Len(opt_level(0)) = 1

\* what the insert_element of thread t returns, seen at the step that ends its
\* search: 1 at line 215, where the call returns, else 0 at line 247
opt_insert_element_result(t) == IF opc'[t] = "idle" THEN 1 ELSE 0

\* C16: insert_element on a key that is present returns 1 and leaves the
\* values, size(), _skip_list_level, every forward pointer and the pool
\* counters as they are; on an absent key it returns 0, the key is findable
\* from then on and size() is one more when the call returns
C16_InsertExistingOrAbsent ==
    /\ [](\A t \in OptThreads : opc[t] = "ins_count" => present(arg_key[t]))
    /\ [][\A t \in OptThreads :
             /\ (opc[t] = "ins_body" /\ opc'[t] # "ins_body") =>
                    IF present(arg_key[t])
                    THEN /\ opt_insert_element_result(t) = 1
                         /\ UNCHANGED <<opt_list_vars, pool_vars, _element_count>>
                    ELSE /\ opt_insert_element_result(t) = 0
                         /\ present(arg_key[t])'
                         /\ Len(opt_level(0))' = Len(opt_level(0)) + 1
                         /\ opc'[t] = "ins_count"
             /\ opc[t] = "ins_count" =>
                    IF opc'[t] = "idle"
                    THEN opt_size' = opt_size + 1 /\ UNCHANGED opt_list_vars
                    ELSE UNCHANGED <<_element_count, opt_key, opt_forward>>]_vars

\* a thread inside insert_element has the locks and its key is in the list,
\* put there by an earlier insert_element that has returned
C16_Witness ==
    \E t \in OptThreads :
        /\ opc[t] = "ins_body"
        /\ present(arg_key[t])
        /\ opt_value[opt_find_node(arg_key[t])] # 0
        /\ opt_size = 2
        /\ ~fault

\* the value search_element prints for a key that is in the list
opt_value_of(k) == opt_value[opt_find_node(k)]

\* C17: delete_element(k) on a key that is present makes it absent, keeps
\* every other key findable with its value and ends with size() one less; on
\* an absent key the structure, size() and _skip_list_level are unchanged
C17_DeletePresentOrAbsent ==
    /\ [](\A t \in OptThreads : opc[t] = "del_count" => ~present(arg_key[t]))
    /\ [][\A t \in OptThreads :
             /\ (opc[t] = "del_body" /\ opc'[t] # "del_body") =>
                    IF present(arg_key[t])
                    THEN /\ ~present(arg_key[t])'
                         /\ \A j \in Keys \ {arg_key[t]} :
                                present(j) =>
                                    present(j)' /\ opt_value_of(j)' = opt_value_of(j)
                         /\ Len(opt_level(0))' = Len(opt_level(0)) - 1
                         /\ opc'[t] = "del_count"
                    ELSE /\ UNCHANGED <<opt_skip_list_level, opt_key, opt_value,
                                        opt_node_level, opt_forward, _element_count>>
                         /\ opc'[t] = "idle"
             /\ opc[t] = "del_count" =>
                    IF opc'[t] = "idle"
                    THEN opt_size' = opt_size - 1 /\ UNCHANGED opt_list_vars
                    ELSE UNCHANGED <<_element_count, opt_key, opt_forward>>]_vars

\* a thread inside delete_element has the locks, its key is in a node that is
\* linked at level 1 too, and the other key is in the list behind it
C17_Witness ==
    \E t \in OptThreads :
        /\ opc[t] = "del_body"
        /\ present(arg_key[t])
        /\ opt_node_level[opt_find_node(arg_key[t])] >= 1
        /\ \E j \in Keys : j > arg_key[t] /\ present(j)
        /\ ~fault

\* threads whose dump_file holds the locks of all segments
dumping == {t \in OptThreads : opc[t] \in {"dp_open", "dp_write", "dp_close"}}

\* the level-0 sequence of (key, value) pairs of the list
opt_pairs ==
    [i \in 1..Len(opt_level(0)) |->
        <<opt_key[opt_level(0)[i]], opt_value[opt_level(0)[i]]>>]

\* C20: from the moment dump_file holds all segment locks to the moment it
\* releases them no step changes a forward pointer, a key or a value, and the
\* lines written are the level-0 (key, value) sequence of the list in that
\* state, in ascending key order
C20_DumpPointInTime ==
    /\ [](\A t \in OptThreads :
             /\ opc[t] = "dp_write" =>
                    /\ Len(opt_file) <= Len(opt_pairs)
                    /\ opt_file = SubSeq(opt_pairs, 1, Len(opt_file))
             /\ opc[t] = "dp_close" =>
                    /\ opt_file = opt_pairs
                    /\ \A i \in 1..(Len(opt_file) - 1) :
                           opt_file[i][1] < opt_file[i + 1][1])
    /\ [][dumping # {} =>
             UNCHANGED <<opt_forward, opt_key, opt_value, opt_skip_list_level>>]_vars

\* a dump_file has written two lines and holds all the locks while another
\* thread's delete_element waits for its segment
C20_Witness ==
    \E t \in OptThreads, u \in OptThreads :
        /\ opc[t] = "dp_close"
        /\ Len(opt_file) = 2
        /\ opc[u] = "del_lock"
        /\ present(arg_key[u])

RECURSIVE mvcc_chain(_, _)
\* the nodes of SkipListMVCC met by walking forward[i] from node n
mvcc_chain(n, i) ==
    IF n = nullptr THEN <<>> ELSE <<n>> \o mvcc_chain(forward[n][i], i)

\* the keys of SkipListMVCC along level i, from the header on
mvcc_keys(i) ==
    LET c == mvcc_chain(forward[_header][i], i)
    IN  [j \in 1..Len(c) |-> key[c[j]]]

\* the keys of SkipListOptimized along level i, from the header on
opt_keys(i) == [j \in 1..Len(opt_level(i)) |-> opt_key[opt_level(i)[j]]]

\* each member of a sequence of keys is less than the next
strictly_increasing(s) == \A j \in 1..(Len(s) - 1) : s[j] < s[j + 1]

\* C13: in SkipListOptimized and in SkipListMVCC, at every level from 0 to
\* _skip_list_level the keys met by walking forward[i] from the header are
\* strictly increasing, so that no key is in two nodes; it holds between any
\* two steps of the threads, hence after any completed operations
C13_KeysStrictlyIncreasing ==
    /\ \A i \in 0.._skip_list_level : strictly_increasing(mvcc_keys(i))
    /\ \A i \in 0..opt_skip_list_level : strictly_increasing(opt_keys(i))
    /\ \A i \in Levels : i > _skip_list_level => forward[_header][i] = nullptr
    /\ \A i \in OptLevels :
           i > opt_skip_list_level => opt_forward[_header][i] = nullptr

\* two keys are in the SkipListOptimized, the smaller one inserted after the
\* larger and after a delete_element, both nodes linked above level 0, and no
\* call is running
C13_Witness ==
    /\ \A t \in OptThreads : opc[t] = "idle"
    /\ Len(opt_level(0)) = 2
    /\ Len(opt_level(1)) = 2
    /\ opt_level(0)[1] > opt_level(0)[2]
    /\ freed # {}
    /\ opt_skip_list_level >= 1

\* SkipListMVCC::size: the nodes counted along level 0
mvcc_size == Len(mvcc_chain(forward[_header][0], 0))

\* every thread of SkipListMVCC is outside the calls and no transaction is open
mvcc_quiet == \A t \in Txns : pc[t] \in {"new", "ready"} /\ state[t] # "ACTIVE"

\* key k was inserted once, by a transaction that has committed, and no
\* delete_element has touched it
inserted_once(k) ==
    /\ has_node(k)
    /\ Len(chain_of(k)) = 1
    /\ chain_of(k)[1].is_committed
    /\ state[chain_of(k)[1].create_ts] = "COMMITTED"
    /\ chain_of(k)[1].delete_ts = UINT64_MAX

\* C15: no insert is lost.  SkipListOptimized: a step of a thread that frees
\* no node keeps every key that is in the list findable with its value, also
\* while another thread is inside insert_element, and when no node was ever
\* deleted and no writer is inside a call, size() is the number of nodes
\* allocated, one per insert_element that returned 0, and each of their keys is
\* found.  SkipListMVCC: when all threads have finished, size() is the number
\* of distinct keys inserted and a transaction begun afterwards finds every
\* key inserted by a committed transaction, with its value
C15_NoLostInsert ==
    /\ []((writing = {} /\ freed = {}) =>
             /\ opt_size = _allocated_count
             /\ Len(opt_level(0)) = _allocated_count
             /\ \A n \in 1.._allocated_count :
                    present(opt_key[n]) /\ opt_find_node(opt_key[n]) = n)
    /\ [](mvcc_quiet =>
             /\ mvcc_size = node_count
             /\ mvcc_size = Cardinality({k \in Keys : has_node(k)})
             /\ \A k \in Keys :
                    inserted_once(k) =>
                        \A r \in _next_txn_id..(MaxTxn + 1) :
                            /\ search_in(version_head, r, k).found
                            /\ search_in(version_head, r, k).value
                                   = chain_of(k)[1].value)
    /\ [][\/ UNCHANGED <<opt_forward, opt_key, opt_value, opt_skip_list_level>>
          \/ freed' # freed
          \/ \A k \in Keys :
                 present(k) => present(k)' /\ opt_value_of(k)' = opt_value_of(k)]_vars

\* two threads are inside insert_element with different keys at once: one has
\* linked its node and is about to count it, the other holds the lock of its
\* own segment and waits for _level_mutex; no node was ever deleted
C15_Witness ==
    \E t \in OptThreads, u \in OptThreads :
        /\ opc[t] = "ins_count"
        /\ opc[u] = "ins_level"
        /\ arg_key[t] # arg_key[u]
        /\ ~present(arg_key[u])
        /\ _segment_locks[get_segment_index(arg_key[u])] = u
        /\ freed = {}
        /\ _allocated_count = 1

\* the nodes whose newest version was written by t and is not marked deleted
written_by(t) ==
    {n \in 1..node_count :
        /\ version_head[n] # <<>>
        /\ version_head[n][1].create_ts = t
        /\ version_head[n][1].delete_ts = UINT64_MAX}

\* the nodes for which a dump_file running in this state emits the newest version
dumped_heads ==
    {n \in 1..node_count :
        \E i \in 1..Len(dump_versions(version_head)) :
            dump_versions(version_head)[i] = <<n, 1>>}

\* C21: a dump_file that runs while commit_transaction(T) runs contains T's
\* value for all the keys T wrote or for none of them
C21_DumpAllOrNothing ==
    \A t \in Txns :
        \/ written_by(t) \cap dumped_heads = {}
        \/ written_by(t) \subseteq dumped_heads

\* C22: dump_file emits, for each node in ascending key order, one line with
\* the value of the first version visible to a reader whose id is
\* _next_txn_id, and no line for a key without such a version; every value
\* emitted was written by a transaction that called commit_transaction and
\* marked it committed, none by an aborted one
C22_DumpContent ==
    /\ dump_file_in(version_head) = visible_pairs(_next_txn_id, 1, MaxKey)
    /\ \A i \in 1..Len(dump_versions(version_head)) :
           LET ver == version_head[dump_versions(version_head)[i][1]]
                                  [dump_versions(version_head)[i][2]]
           IN  /\ ver.is_committed
               /\ commit_called(ver.create_ts)
               /\ state[ver.create_ts] # "ABORTED"

\* a key has an older committed version under a newer one, with another value,
\* whose writer has aborted: the dump holds one line, with the older value
C22_Witness ==
    \E n \in 1..node_count :
        /\ Len(version_head[n]) = 2
        /\ state[version_head[n][1].create_ts] = "ABORTED"
        /\ version_head[n][1].value # version_head[n][2].value
        /\ dump_file_in(version_head) = << <<key[n], version_head[n][2].value>> >>

\* load_file is one transaction: begin_transaction, an insert_element for
\* every line of the file, commit_transaction (line 638-650).  The nodes
\* written by transaction t whose newest version a search by reader r returns
seen_by(r, t) ==
    {n \in written_by(t) : get_visible_version(version_head[n], r) = 1}

\* C25: a transaction that runs beside load_file never finds some of the keys
\* loaded and misses others: the keys the loading transaction wrote are found
\* by a reader all together or not at all
C25_LoadVisibleAtOnce ==
    \A t \in Txns, r \in Txns :
        (Reader(r) /\ r # t) =>
            seen_by(r, t) = {} \/ seen_by(r, t) = written_by(t)

\* the keys that search_element of a transaction begun now would find
live_keys == {k \in Keys : search_in(version_head, _next_txn_id, k).found}

\* C26: in every quiescent state size() equals the number of keys that a
\* search_element by a newly begun transaction finds
C26_SizeIsLiveKeyCount ==
    mvcc_quiet => mvcc_size = Cardinality(live_keys)

\* C30: in every node the create_ts values met walking the version chain from
\* the head to the tail never increase
C30_ChainOrdered ==
    \A n \in 1..node_count :
        \A i \in 1..(Len(version_head[n]) - 1) :
            version_head[n][i].create_ts >= version_head[n][i + 1].create_ts

\* threads inside the walk of search_element or search_element_silent
searching == {t \in OptThreads : opc[t] \in {"sr_walk", "sr_end"}}

\* C28: search_element and search_element_silent never read the key or a
\* forward pointer of a node that delete_element has unlinked and freed: the
\* node a searching thread stands on, whose forward pointer it reads next, and
\* the node that pointer leads to, whose key it reads next, are not freed
C28_NoUseOfFreedNode ==
    \A t \in searching :
        /\ opt_current[t] \notin freed
        /\ opt_forward[opt_current[t]][level_i[t]] \notin freed

\* C27: allocate returns a node with node_level = level, every forward slot
\* 0..level null and the key and value given; with a free list that is not
\* empty it is the node deallocated last, _reused_count grows by one,
\* _allocated_count stays and the free list loses one node; otherwise
\* _allocated_count grows by one.  deallocate of a node adds one node to the
\* free list, deallocate of null adds none
C27_PoolAllocate ==
    [][/\ \A k \in Keys, v \in Values, level \in OptLevels :
            pool_allocate(k, v, level) =>
                /\ opt_node_level'[allocate_node] = level
                /\ \A i \in 0..level : opt_forward'[allocate_node][i] = nullptr
                /\ opt_key'[allocate_node] = k
                /\ opt_value'[allocate_node] = v
                /\ IF _free_list # <<>>
                   THEN /\ allocate_node = _free_list[Len(_free_list)]
                        /\ _reused_count' = _reused_count + 1
                        /\ _allocated_count' = _allocated_count
                        /\ Len(_free_list') = Len(_free_list) - 1
                   ELSE /\ allocate_node \notin 1.._allocated_count
                        /\ _allocated_count' = _allocated_count + 1
                        /\ _reused_count' = _reused_count
                        /\ _free_list' = _free_list
                /\ allocate_node \in in_use'
       /\ \A node \in in_use \cup {nullptr} :
            pool_deallocate(node) =>
                /\ Len(_free_list') = Len(_free_list) + (IF node = nullptr THEN 0 ELSE 1)
                /\ node # nullptr => _free_list'[Len(_free_list')] = node
                /\ UNCHANGED <<_allocated_count, _reused_count>>]_vars

\* two nodes lie on the free list, the one deallocated last has a forward slot
\* that is not null and a level above 0, and a reuse has already happened
C27_Witness ==
    /\ Len(_free_list) = 2
    /\ _reused_count >= 1
    /\ opt_node_level[_free_list[2]] >= 1
    /\ \E i \in OptLevels : opt_forward[_free_list[2]][i] # nullptr
\* ------------------------------------------------------------- round trips
\* the value holds no newline
one_line(v) == \A i \in 1..Len(v) : v[i] # "\n"

\* SkipListOptimized::size of the instance that loaded: _element_count, which
\* insert_element raises for every pair that it adds
loaded_size == Cardinality(f_loaded)

\* C23: when dump_file of a SkipListOptimized<int,string> is followed by
\* load_file on a fresh instance, the loaded instance holds exactly the pairs
\* and the size of the dumping one, for values that fit on one line, the empty
\* string and values with ':' among them
C23_OptRoundTrip ==
    (f_pc = "opt_done" /\ \A p \in f_src : one_line(p[2]))
        => f_loaded = f_src /\ loaded_size = Cardinality(f_src)

\* what search_element(k) gives a newly begun transaction on the instance that
\* dumps: <<found, value>>
source_outcome(k) ==
    IF k \in keys_of(f_src) THEN <<TRUE, value_in(f_src, k)>> ELSE <<FALSE, <<>>>>

\* what search_element(k) gives a newly begun transaction on the instance that
\* loaded: <<found, value>>
loaded_outcome(k) ==
    LET i == get_visible_version(f_chains[k], load_txn_id + 1)
    IN  IF i = 0 THEN <<FALSE, <<>>>> ELSE <<TRUE, f_chains[k][i].value>>

\* C24, as stated: load_file of a SkipListMVCC dump completes, and for every key a
\* newly begun transaction on the loaded instance gets the outcome and the
\* value that a newly begun transaction on the source got at dump time
C24_MvccRoundTrip ==
    /\ f_pc # "mvcc_thrown"
    /\ f_pc = "mvcc_done" => \A k \in Keys : loaded_outcome(k) = source_outcome(k)

\* C24, for values without a newline: load_file of a SkipListMVCC dump
\* completes, and for every key a newly begun transaction on the loaded instance
\* gets the outcome and the value that a newly begun transaction on the source
\* got at dump time
C24_MvccRoundTripOneLine ==
    (\A p \in f_src : one_line(p[2])) =>
        /\ f_pc # "mvcc_thrown"
        /\ f_pc = "mvcc_done" =>
               \A k \in Keys : loaded_outcome(k) = source_outcome(k)

\* a SkipListMVCC has loaded the dump of an instance with an absent key, or
\* with an empty value and a value that holds ':'
C24_Witness ==
    /\ f_pc = "mvcc_done"
    /\ \A p \in f_src : one_line(p[2])
    /\ \E p \in f_src : p[2] = <<>>
    /\ \E p \in f_src : p[2] = <<":", "a">>
\* ------------------------------------------------------- lock-free reads
\* the nodes that some forward pointer leads to
linked_nodes ==
    {n \in Nodes : \E m \in Nodes \cup {_header}, i \in Levels : forward[m][i] = n}

\* C29: a search_element whose reads interleave with the statements of
\* insert_element calls never follows a null pointer; when the node of its key
\* was fully linked at the call and holds, unchanged, a version visible to the
\* reader, it returns true with that version's value; and no node that a
\* traversal can reach has an empty version chain
C29_LockFreeRead ==
    /\ \A r \in Txns : pc[r] # "s_crash"
    /\ \A r \in Txns :
          (/\ pc[r] = "searched"
           /\ s_chain0 # <<>>
           /\ version_head[node_with(s_key)] = s_chain0
           /\ get_visible_version(s_chain0, r) # 0)
          => s_result = <<TRUE, s_chain0[get_visible_version(s_chain0, r)].value>>
    /\ \A n \in linked_nodes : version_head[n] # <<>>

\* ------------------------------------------------------------ chain heads
\* what identifies a version: its value and the transaction that created it
version_id(ver) == <<ver.value, ver.create_ts>>

\* C31: every node that a forward pointer leads to has a version, also between
\* the statements of an insert_element; a step either pushes one new version
\* of an active transaction on top of a chain and leaves the rest as it was,
\* or leaves the head of every chain the version it was (gc among them)
C31_HeadIsLastInsert ==
    /\ [](\A n \in linked_nodes : version_head[n] # <<>>)
    /\ [][\A n \in Nodes :
             \/ version_head'[n] = version_head[n]
             \/ /\ version_head[n] # <<>>
                /\ version_head'[n] # <<>>
                /\ version_id(version_head'[n][1]) = version_id(version_head[n][1])
                /\ Len(version_head'[n]) <= Len(version_head[n])
             \/ /\ Len(version_head'[n]) = Len(version_head[n]) + 1
                /\ Tail(version_head'[n]) = version_head[n]
                /\ \E t \in Txns, v \in Values :
                      /\ state[t] = "ACTIVE"
                      /\ version_head'[n][1] = Version(v, t)]_vars

\* gc has collected the older version of a key that two transactions wrote,
\* and the version of the later insert_element is the head
C31_Witness ==
    \E n \in linked_nodes :
        /\ Len(version_head[n]) = 1
        /\ _total_versions = 2
        /\ node_count = 1

\* -------------------------------------------------------- commit marking
\* the versions of a chain, as a set
versions_of(chain) == {chain[i] : i \in 1..Len(chain)}

\* C32: no step clears is_committed of a version (a step marks versions in
\* place, pushes one version on a chain, or unlinks versions and leaves the
\* others as they are); once commit_transaction(T) has returned true every
\* version with create_ts = T in any chain is committed; and no version of an
\* aborted transaction is committed
C32_CommitMarking ==
    /\ [](\A t \in Txns, n \in Nodes : \A ver \in versions_of(version_head[n]) :
             ver.create_ts = t =>
                /\ state[t] = "COMMITTED" => ver.is_committed
                /\ state[t] = "ABORTED" => ~ver.is_committed)
    /\ [][\A n \in Nodes :
             \/ version_head'[n] = version_head[n]
             \/ /\ Len(version_head'[n]) = Len(version_head[n])
                /\ \A i \in 1..Len(version_head[n]) :
                      version_head[n][i].is_committed
                          => version_head'[n][i].is_committed
             \/ /\ Len(version_head'[n]) = Len(version_head[n]) + 1
                /\ Tail(version_head'[n]) = version_head[n]
             \/ /\ Len(version_head'[n]) < Len(version_head[n])
                /\ versions_of(version_head'[n]) \subseteq versions_of(version_head[n])]_vars

\* a transaction that wrote one key twice has committed
C32_Witness ==
    \E t \in Txns, n \in Nodes :
        /\ state[t] = "COMMITTED"
        /\ Len(version_head[n]) = 2
        /\ version_head[n][1].create_ts = t
        /\ version_head[n][2].create_ts = t

\* --------------------------------------------------------------- delete_ts
\* C33: a step that keeps the versions of a chain leaves every delete_ts that
\* is no longer UINT64_MAX as it is, so the delete_ts of a version is written
\* at most once
C33_DeleteTsWrittenOnce ==
    [][\A n \in Nodes :
          Len(version_head'[n]) = Len(version_head[n]) =>
              \A i \in 1..Len(version_head[n]) :
                  version_head[n][i].delete_ts # UINT64_MAX
                      => version_head'[n][i].delete_ts = version_head[n][i].delete_ts]_vars

\* --------------------------------------------------- SkipListOptimized level
\* the nodes of SkipListOptimized that are linked at level 0
opt_live == {opt_level(0)[i] : i \in 1..Len(opt_level(0))}

\* the greatest node_level of a live node, 0 for the empty list
max_live_level ==
    IF opt_live = {} THEN 0
    ELSE CHOOSE l \in OptLevels :
            /\ \E n \in opt_live : opt_node_level[n] = l
            /\ \A n \in opt_live : opt_node_level[n] <= l

\* C34: _skip_list_level never exceeds _max_level, and whenever no
\* insert_element or delete_element is in progress it is the greatest
\* node_level of a live node, 0 when the list is empty
C34_LevelInvariant ==
    /\ opt_skip_list_level <= MaxOptLevel
    /\ writing = {} => opt_skip_list_level = max_live_level

\* two nodes, each of level 1 or more, have been inserted and deleted, the list
\* is empty again and the level is 0
C34_Witness ==
    /\ writing = {}
    /\ opt_live = {}
    /\ opt_skip_list_level = 0
    /\ Cardinality(freed) = 2

\* --------------------------------------------------------- tower contiguity
\* node n is in the sequence of nodes
in_seq(n, nodes) == \E j \in 1..Len(nodes) : nodes[j] = n

in_segment(t) ==
    opc[t] \in {"ins_level", "ins_body", "ins_count", "del_level", "del_body",
                "del_count", "sr_level", "sr_walk", "sr_end"}

C37_NoOverwrittenWrite ==
    \A r \in Txns, n \in 1..node_count :
        (Reader(r) /\ get_visible_version(version_head[n], r) # 0) =>
            LET pos == get_visible_version(version_head[n], r)
                creator == version_head[n][pos].create_ts
            IN  creator # r =>
                    \A j \in 1..(pos - 1) : version_head[n][j].create_ts # creator

\* ------------------------------------------------ SkipListMVCC deadlock
\* the mutexes that thread th holds
held_by(th) ==
    {m \in {global_mutex_id, txn_mutex_id} \cup {version_mutex_id(n) : n \in Nodes} :
        holder(m) = th}

\* thread a waits for a mutex that thread b holds
mvcc_waits_for(a, b) ==
    /\ script[a] # <<>>
    /\ Head(script[a]).op = "lock"
    /\ holder(Head(script[a]).m) = b

\* C38: no thread waits for a mutex it holds itself, no two or three threads
\* wait for each other in a cycle, a thread that holds _txn_mutex or a
\* version_mutex is about to unlock it and locks nothing before, and under fair
\* scheduling every call returns
C38_MvccDeadlockFree ==
    /\ [](\A a \in Callers : ~mvcc_waits_for(a, a))
    /\ [](\A a, b \in Callers : ~(mvcc_waits_for(a, b) /\ mvcc_waits_for(b, a)))
    /\ [](\A a, b, c \in Callers :
             ~(mvcc_waits_for(a, b) /\ mvcc_waits_for(b, c) /\ mvcc_waits_for(c, a)))
    /\ [](\A th \in Callers : \A m \in held_by(th) :
             m # global_mutex_id =>
                 Head(script[th]) = [op |-> "unlock", m |-> m])
    /\ \A th \in Callers : (script[th] # <<>>) ~> (script[th] = <<>>)

\* gc holds _global_mutex and _txn_mutex while one thread waits for
\* _txn_mutex in commit_transaction and another for _global_mutex
C38_Witness ==
    \E a, b, c \in Callers :
        /\ held_by(a) = {global_mutex_id, txn_mutex_id}
        /\ mvcc_waits_for(b, a) /\ Head(script[b]).m = txn_mutex_id
        /\ mvcc_waits_for(c, a) /\ Head(script[c]).m = global_mutex_id

\* ------------------------------------------------- transaction identifiers
\* the ids that begin_transaction has handed out
handed_out == {t \in Txns : state[t] # "NONE"}

\* no begin_transaction, commit_transaction or abort_transaction is in progress
txn_quiet == \A t \in Txns : pc[t] \in {"new", "ready"}

\* C39: the ids handed out are 1, 2, ... up to the counter, each to one
\* transaction; the counter only moves up by one, when a begin_transaction
\* fetches it and gives the value fetched to a transaction that did not exist;
\* and whenever no begin, commit or abort is in progress _active_transactions
\* holds exactly the transactions whose state is Active
C39_TransactionIds ==
    /\ [](handed_out = 1..(_next_txn_id - 1))
    /\ [](txn_quiet => _active_transactions = {t \in Txns : state[t] = "ACTIVE"})
    /\ [][\/ /\ _next_txn_id' = _next_txn_id
             /\ handed_out' = handed_out
          \/ /\ _next_txn_id' = _next_txn_id + 1
             /\ state[_next_txn_id] = "NONE"
             /\ state'[_next_txn_id] = "ACTIVE"
             /\ handed_out' = handed_out \cup {_next_txn_id}]_vars

\* three transactions have begun, the first two together; one has committed,
\* one has aborted and one is active
C39_Witness ==
    /\ txn_quiet
    /\ _next_txn_id = 4
    /\ \E t \in Txns : state[t] = "COMMITTED"
    /\ \E t \in Txns : state[t] = "ABORTED"
    /\ _active_transactions # {}

\* ---------------------------------------------------- aborted versions
\* C40: when no transaction is active, a call to gc() leaves no version of an
\* aborted transaction below the head of a chain
C40_AbortedVersionReclaimed ==
    (running = {} /\ _active_transactions = {}) =>
        \A n \in 1..node_count : \A j \in 2..Len(gc_result[n]) :
            state[gc_result[n][j].create_ts] # "ABORTED"
====
